---- MODULE Spec2Model ----
(***************************************************************************)
(* A model of the UNO game engine of src/src/components/UnoGame.tsx: the   *)
(* stored game row and player rows, every client's React state (the loaded *)
(* `game`, the selection, the draw timer), and the handlers that read the  *)
(* client's `game` and write the rows.                                     *)
(***************************************************************************)
EXTENDS Integers, Sequences, FiniteSets, TLC

VARIABLES
  games,          \* the row of table `games` (NoRow before createGame)
  players,        \* table `players`: player_id -> row (NoRow when absent)
  game,           \* per client: React state `game` (NoGame before loadGame)
  gameState,      \* per client: React state `gameState`
  selectedCards,  \* per client: React state `selectedCards`
  pendingWildCards, \* per client: React state `pendingWildCards`
  showColorSelect,  \* per client: React state `showColorSelect`
  drawTimer,      \* per client: React state `drawTimer` (NoTimer = null)
  timerGame,      \* per client: the `game` the armed interval closure captured
  requests,       \* handlers suspended at an `await`: the writes still to come
  stale,          \* the browsers a change notification is on its way to
  races,          \* the number of clicks and expiries that overtook a write
  now,            \* Date.now(): the number of response deadlines set so far
  clock,          \* per client: the latest deadline that has passed on its clock
  moves,          \* the number of plays and draws started so far
  lastOp,         \* observation: the click or expiry handled last
  probe           \* observation: inputs and result of a pure function

vars == <<games, players, game, gameState, selectedCards, pendingWildCards,
          showColorSelect, drawTimer, timerGame, requests, stale, races,
          now, clock, moves, lastOp, probe>>

----------------------------------------------------------------------------
(* Sequence helpers (JS array methods). *)

Range(s) == {s[i] : i \in 1..Len(s)}

\* Array.prototype.filter
RECURSIVE Filter(_, _)
Filter(s, keep) ==
  IF s = <<>> THEN <<>>
  ELSE (IF Head(s) \in keep THEN <<Head(s)>> ELSE <<>>) \o Filter(Tail(s), keep)

\* Array.prototype.slice(0, n) for n >= 0, and slice(0, -n)
Take(s, n) == SubSeq(s, 1, IF n < Len(s) THEN n ELSE Len(s))
DropLast(s, n) == SubSeq(s, 1, IF Len(s) > n THEN Len(s) - n ELSE 0)
\* what is left of an array after splice(0, n)
Drop(s, n) == SubSeq(s, (IF n < Len(s) THEN n ELSE Len(s)) + 1, Len(s))

\* Array.prototype.findIndex, 0-based, -1 when absent
FindIndex(s, keep) ==
  IF \E i \in 1..Len(s) : s[i] \in keep
  THEN (CHOOSE i \in 1..Len(s) : s[i] \in keep /\ \A j \in 1..(i-1) : s[j] \notin keep) - 1
  ELSE -1

\* JS remainder: the sign of the result is the sign of the dividend
JsRem(a, b) == IF a >= 0 THEN a % b ELSE 0 - ((0 - a) % b)

RECURSIVE SumSeq(_)
SumSeq(s) == IF s = <<>> THEN 0 ELSE Head(s) + SumSeq(Tail(s))

----------------------------------------------------------------------------
(* Cards: UnoGame.tsx 13-21, 66-124. *)

colors == <<"red", "blue", "green", "yellow">>
numbers == <<0, 1, 2, 3, 4, 5, 6, 7, 8, 9>>
actionTypes == <<"skip", "reverse", "draw2">>
NoValue == -1     \* `value` is undefined on a card that is not a number card

\* A card id is the template string of generateDeck, kept as the tuple of its
\* parts: <<colour or wild kind, type, value, copy, deckNum>>.
UnoCard(color, type, value, copy, deckNum) ==
  [id |-> <<(IF color = "wild" THEN type ELSE color), type, value, copy, deckNum>>,
   color |-> color, type |-> type, value |-> value]

\* colors.forEach(color => { 0 card; numbers.slice(1).forEach(two cards) })
NumberCardsOf(color, deckNum, nums) ==
  LET pair(n) == <<UnoCard(color, "number", n, 1, deckNum),
                   UnoCard(color, "number", n, 2, deckNum)>>
      F[i \in 0..Len(nums)] ==
        IF i = 0 THEN <<>>
        ELSE F[i-1] \o (IF i = 1 THEN <<UnoCard(color, "number", nums[1], 1, deckNum)>>
                        ELSE pair(nums[i]))
  IN F[Len(nums)]

\* colors.forEach(color => ['skip','reverse','draw2'].forEach(two cards))
ActionCardsOf(color, deckNum, types) ==
  LET F[i \in 0..Len(types)] ==
        IF i = 0 THEN <<>>
        ELSE F[i-1] \o <<UnoCard(color, types[i], NoValue, 1, deckNum),
                         UnoCard(color, types[i], NoValue, 2, deckNum)>>
  IN F[Len(types)]

\* for (i = 0; i < 4; i++) { wild-i; wild4-i }
WildCardsOf(deckNum, n) ==
  LET F[i \in 0..n] ==
        IF i = 0 THEN <<>>
        ELSE F[i-1] \o <<UnoCard("wild", "wild", NoValue, i - 1, deckNum),
                         UnoCard("wild", "wild4", NoValue, i - 1, deckNum)>>
  IN F[n]

OneDeck(deckNum, cols, nums, types, nWild) ==
  LET N[i \in 0..Len(cols)] ==
        IF i = 0 THEN <<>> ELSE N[i-1] \o NumberCardsOf(cols[i], deckNum, nums)
      A[i \in 0..Len(cols)] ==
        IF i = 0 THEN <<>> ELSE A[i-1] \o ActionCardsOf(cols[i], deckNum, types)
  IN N[Len(cols)] \o A[Len(cols)] \o WildCardsOf(deckNum, nWild)

\* a variant of generateDeck that builds both decks with deckNum 0
generateDeck_OneDeckNum ==
  OneDeck(0, colors, numbers, actionTypes, 4) \o
  OneDeck(0, colors, numbers, actionTypes, 4)

\* generateDeck(): two complete decks
generateDeck ==
  OneDeck(0, colors, numbers, actionTypes, 4) \o
  OneDeck(1, colors, numbers, actionTypes, 4)

----------------------------------------------------------------------------
(* Legality and stacking: UnoGame.tsx 534-613.  `g` is the client's `game`, *)
(* `sel` its `selectedCards`.                                              *)

NoType == "none"      \* pending_draw_type null
NoTimer == -1         \* stacking_timer null / drawTimer null

\* topCard (useMemo, 250-253): null when the discard pile is empty
HasTopCard(g) == Len(g.discardPile) > 0
topCard(g) == g.discardPile[Len(g.discardPile)]

\* a variant of canStackCard in which any two action cards stack
canStackCard_AnyAction(firstCard, newCard) ==
  IF firstCard.type = "number" /\ newCard.type = "number"
  THEN firstCard.value = newCard.value
  ELSE firstCard.type # "number" /\ newCard.type # "number"

canStackCard(firstCard, newCard) ==
  IF firstCard.type = "number" /\ newCard.type = "number"
  THEN firstCard.value = newCard.value
  ELSE firstCard.type = newCard.type /\ firstCard.type # "number"

canPlayDrawCard(g, card) ==
  IF g.pendingDrawType = NoType THEN FALSE
  ELSE \/ g.pendingDrawType = "draw2" /\ card.type = "draw2"
       \/ g.pendingDrawType = "wild4" /\ card.type = "wild4"

canPlayCard(g, sel, card) ==
  IF ~HasTopCard(g) THEN FALSE
  ELSE IF g.pendingDrawTotal > 0 /\ g.pendingDrawType # NoType
       THEN canPlayDrawCard(g, card)
  ELSE IF card.color = "wild" THEN TRUE
  ELSE IF Len(sel) = 0
       THEN \/ card.color = g.currentColor
            \/ card.type = "number" /\ topCard(g).type = "number"
                 /\ card.value = topCard(g).value
            \/ card.type = topCard(g).type /\ card.type # "wild" /\ card.type # "wild4"
  ELSE TRUE

----------------------------------------------------------------------------
(* Turn engine: UnoGame.tsx 801-900. *)

NoId == "none"        \* `undefined` where a player id is expected

\* game.players[i] (0-based); currentPlayer?.id is undefined out of range
InPlayers(g, i) == i >= 0 /\ i < Len(g.players)
PlayerIdAt(g, i) == IF InPlayers(g, i) THEN g.players[i + 1].id ELSE NoId

\* Array.prototype.sort((a, b) => a.seatedPosition - b.seatedPosition): stable
RECURSIVE SortBySeat(_)
SortBySeat(s) ==
  IF s = <<>> THEN <<>>
  ELSE LET rest == SortBySeat(SubSeq(s, 1, Len(s) - 1))
           p == s[Len(s)]
           n == Cardinality({i \in 1..Len(rest) : rest[i].seatedPosition <= p.seatedPosition})
       IN SubSeq(rest, 1, n) \o <<p>> \o SubSeq(rest, n + 1, Len(rest))

getSeatedPlayers(g) ==
  SortBySeat(Filter(g.players, {p \in Range(g.players) : p.seated}))

getCurrentSeatedPlayerIndex(g) ==
  LET seatedPlayers == getSeatedPlayers(g)
      currentId == PlayerIdAt(g, g.currentPlayerIndex)
      found == FindIndex(seatedPlayers, {p \in Range(seatedPlayers) : p.id = currentId})
  IN IF found # 0 THEN found ELSE 0      \* findIndex(...) || 0

\* (i + direction + k) % k
StepSeat(i, direction, k) == JsRem(i + direction + k, k)

\* a variant of SkipCountOf in which a reverse skips whatever the table size
SkipCountOf_ReverseAlwaysSkips(cards, k) ==
  Cardinality({i \in 1..Len(cards) : cards[i].type \in {"skip", "reverse"}})

\* skipCount of a play: +1 per skip, +1 per reverse when exactly two are seated
SkipCountOf(cards, k) ==
  Cardinality({i \in 1..Len(cards) : cards[i].type = "skip"})
  + (IF k = 2 THEN Cardinality({i \in 1..Len(cards) : cards[i].type = "reverse"}) ELSE 0)

\* newDirection after the forEach: flipped once per reverse card
FlippedDirection(direction, cards) ==
  LET F[i \in 0..Len(cards)] ==
        IF i = 0 THEN direction
        ELSE IF cards[i].type = "reverse" THEN 0 - F[i-1] ELSE F[i-1]
  IN F[Len(cards)]

calculateCardEffects(g, cards) ==
  LET seatedPlayers == getSeatedPlayers(g)
      k == Len(seatedPlayers)
  IN IF k = 0
     THEN [nextPlayerIndex |-> g.currentPlayerIndex, newDirection |-> g.direction,
           skipEffects |-> 0, skippedPlayers |-> <<>>]
     ELSE
       LET currentSeatedIndex == getCurrentSeatedPlayerIndex(g)
           flipped == FlippedDirection(g.direction, cards)
           skipCount == SkipCountOf(cards, k)
           \* Seat[0]: after the unconditional advance; Seat[i]: after i skips
           Seat[i \in 0..skipCount] ==
             IF i = 0 THEN StepSeat(currentSeatedIndex, flipped, k)
             ELSE StepSeat(Seat[i-1], flipped, k)
           skippedPlayers == [i \in 1..skipCount |-> seatedPlayers[Seat[i-1] + 1].id]
           nextSeatedIndex == Seat[skipCount]
           reverses == Cardinality({i \in 1..Len(cards) : cards[i].type = "reverse"})
           newDirection == IF reverses % 2 = 0 /\ k > 2 THEN g.direction ELSE flipped
           nextId == seatedPlayers[nextSeatedIndex + 1].id
           nextPlayerIndex == FindIndex(g.players, {p \in Range(g.players) : p.id = nextId})
       IN [nextPlayerIndex |-> IF nextPlayerIndex # -1 THEN nextPlayerIndex
                               ELSE g.currentPlayerIndex,
           newDirection |-> newDirection,
           skipEffects |-> skipCount,
           skippedPlayers |-> skippedPlayers]

----------------------------------------------------------------------------
(* Bounds of the model. *)

NumBrowsers == 3      \* browsers that exist (the first one is the host)
NumClients == 2       \* browsers that take part in the rounds
DealSize == 2         \* cards dealt to a hand (7 in the code: splice(0, 7))
NumShuffles == 1      \* outcomes of shuffleDeck that are explored
MaxMoves == 2         \* plays and draws that may be started
MaxRaces == 1         \* clicks and expiries that may overtake a write
MaxRequests == 1      \* handlers that may be suspended at an await at once
MaxSignals == 2       \* expiry signals one timer expiry may raise

PlayerIds == <<"p1", "p2", "p3", "p4">>
Browsers == {PlayerIds[i] : i \in 1..NumBrowsers}
Clients == {PlayerIds[i] : i \in 1..NumClients}
Host == PlayerIds[1]

\* The cards on the table: the deck generateDeck builds, cut down to one
\* deck, two colours, the number 0, draw2, one wild and one wild4.
TableDeck == OneDeck(0, SubSeq(colors, 1, 2), SubSeq(numbers, 1, 1), <<"draw2">>, 1)

\* shuffleDeck(deck): Fisher-Yates can return any permutation; the outcomes
\* explored are the deck read with a stride of three cards (the stride and
\* the size of TableDeck have no common factor), from NumShuffles starting
\* cards.
ShuffleStride == 3
Strided(deck, start) ==
  [i \in 1..Len(deck) |-> deck[((start + ShuffleStride * (i - 1)) % Len(deck)) + 1]]
shuffleDeck(deck) == {Strided(deck, 2 * k) : k \in 1..NumShuffles}

----------------------------------------------------------------------------
(* The store: tables `games` and `players` (supabase/migrations). *)

NoRow == [exists |-> FALSE]
NoGame == [exists |-> FALSE]
NoColor == "none"

\* a players table without the constraint: every position is taken
PositionFree_Unconstrained(rows, id, position) == TRUE

\* UNIQUE(game_id, position): a write that would give two rows one position
\* is refused by the store (the client gets an error object back)
PositionFree(rows, id, position) ==
  \A q \in DOMAIN rows : (q # id /\ rows[q].exists) => rows[q].position # position

\* .update(columns): the named columns of the row change, the others stay
UpdateRow(row, columns) ==
  [f \in DOMAIN row |-> IF f \in DOMAIN columns THEN columns[f] ELSE row[f]]

\* rows of `players` for the game, .order('position')
PlayerRows(rows) ==
  LET ids == {q \in DOMAIN rows : rows[q].exists}
      rank(q) == Cardinality({r \in ids : rows[r].position < rows[q].position})
  IN [i \in 1..Cardinality(ids) |-> rows[CHOOSE q \in ids : rank(q) = i - 1]]

\* loadGame 378-418: transformedGame
transformedGame(gameData, playersData) ==
  [exists |-> TRUE,
   hostId |-> gameData.host_id,
   maxPlayers |-> gameData.max_players,
   currentPlayerIndex |-> gameData.current_player_index,
   direction |-> gameData.direction,
   drawPile |-> gameData.draw_pile,
   discardPile |-> gameData.discard_pile,
   currentColor |-> gameData.current_color,
   playHistory |-> gameData.play_history,
   gameState |-> gameData.game_state,
   winnerId |-> gameData.winner_id,
   stackingTimer |-> gameData.stacking_timer,
   pendingDrawTotal |-> gameData.pending_draw_total,
   pendingDrawType |-> gameData.pending_draw_type,
   players |-> [i \in 1..Len(playersData) |->
                 [id |-> playersData[i].player_id,
                  hand |-> playersData[i].hand,
                  position |-> playersData[i].position,
                  isHost |-> playersData[i].is_host,
                  seated |-> playersData[i].seated,
                  seatedPosition |-> playersData[i].seated_position]]]

\* myPlayer = game.players.find(p => p.id === playerId) (1795)
HasMyPlayer(g, c) == g.exists /\ \E i \in 1..Len(g.players) : g.players[i].id = c
myPlayer(g, c) == g.players[CHOOSE i \in 1..Len(g.players) : g.players[i].id = c]

----------------------------------------------------------------------------
(* State after construction: no game row, every browser in the lobby. *)

NoProbe == [op |-> "none"]
NoOp == [op |-> "none", client |-> NoId]

Init ==
  /\ games = NoRow
  /\ players = [c \in Browsers |-> NoRow]
  /\ game = [c \in Browsers |-> NoGame]
  /\ gameState = [c \in Browsers |-> "lobby"]
  /\ selectedCards = [c \in Browsers |-> <<>>]
  /\ pendingWildCards = [c \in Browsers |-> <<>>]
  /\ showColorSelect = [c \in Browsers |-> FALSE]
  /\ drawTimer = [c \in Browsers |-> NoTimer]
  /\ timerGame = [c \in Browsers |-> NoGame]
  /\ requests = {}
  /\ stale = {}
  /\ races = 0
  /\ now = 0
  /\ clock = [c \in Browsers |-> 0]
  /\ moves = 0
  /\ lastOp = NoOp
  /\ probe = NoProbe

\* what a handler leaves alone
LocalUnchanged == UNCHANGED <<selectedCards, pendingWildCards, showColorSelect>>
TimerUnchanged == UNCHANGED <<drawTimer, timerGame, now, clock>>

\* a click handler may suspend at an await only while fewer than MaxRequests
\* are suspended (the handlers the timer starts are not counted)
CanSuspend ==
  Cardinality({r \in requests : r.op # "handleDrawTimeout"}) < MaxRequests

Entry(player, action, n) == [player |-> player, action |-> action, n |-> n]

\* 299-348: a browser that has a game is subscribed to the changes of its
\* rows; every write sends each of them a notification that runs loadGame
Subscribers == {c \in Browsers : game[c].exists}
Notify == stale' = Subscribers

\* Between a write and the last thing it causes (the next write of the same
\* handler, the reload in every browser) the table is not quiet.  A click or
\* a timer expiry in that window overtakes the write: a race.
Quiet == stale = {} /\ requests = {}
ClickStep ==
  /\ Quiet \/ races < MaxRaces
  /\ races' = IF Quiet THEN races ELSE races + 1

----------------------------------------------------------------------------
(* loadGame 361-440, run on every change notification (299-348). *)

\* A deadline (stacking_timer) is the number `now` had when it was set, >= 1.
\* Math.max(0, Math.ceil((timerEnd - now) / 1000)) is 0 once the deadline has
\* passed on this browser's clock; a drawTimer > 0 stands for any remaining
\* count of seconds > 0 and is kept as the deadline it counts down to.
Armed(c) == drawTimer[c] > 0
Remaining(c, timerEnd) == IF timerEnd <= clock[c] THEN 0 ELSE timerEnd

\* 422-436: the drawTimer that loadGame sets from the loaded game
LoadedTimers(g, c) ==
  IF g.stackingTimer # NoTimer /\ g.pendingDrawTotal > 0
  THEN IF PlayerIdAt(g, g.currentPlayerIndex) = c
       THEN {Remaining(c, g.stackingTimer)} ELSE {NoTimer}
  ELSE {NoTimer}

\* The interval of 271-285 is set up again, and captures the handlers of the
\* current render, only when drawTimer changes to another positive value;
\* a reload that leaves the count as it was keeps the old closure.
CapturedGames(c, g, timer) ==
  IF timer <= 0 THEN {NoGame}
  ELSE IF Armed(c) THEN {g, timerGame[c]} ELSE {g}

\* setGame, setGameState and the timer handling of loadGame, for the rows
\* read; `state` is the gameState a caller sets right after ("" for none)
Loaded(c, gameData, playersData, state) ==
  LET g == transformedGame(gameData, PlayerRows(playersData))
  IN /\ game' = [game EXCEPT ![c] = g]
     /\ gameState' = [gameState EXCEPT ![c] = IF state = "" THEN g.gameState ELSE state]
     /\ \E t \in LoadedTimers(g, c) :
          /\ drawTimer' = [drawTimer EXCEPT ![c] = t]
          /\ \E tg \in CapturedGames(c, g, t) :
               timerGame' = [timerGame EXCEPT ![c] = tg]

loadGame(c) ==
  /\ c \in stale
  /\ stale' = stale \ {c}
  /\ UNCHANGED races
  /\ game[c].exists
  /\ games.exists
  /\ Loaded(c, games, players, "")
  /\ UNCHANGED <<games, players, requests, now, clock, moves, lastOp, probe>>
  /\ LocalUnchanged

----------------------------------------------------------------------------
(* createGame 1194-1236. *)

MaxPlayers == 3     \* max_players of the new row (8 in the code)

\* CHECK (max_players >= 2 AND max_players <= 6) of the games table
MaxPlayersAllowed(n) == n >= 2 /\ n <= 6

NewGameRow(c, deck, discardPile) ==
  [exists |-> TRUE,
   host_id |-> c,
   max_players |-> MaxPlayers,
   current_player_index |-> 0,
   direction |-> 1,
   draw_pile |-> deck,
   discard_pile |-> discardPile,
   current_color |-> IF discardPile[1].color = "wild" THEN "red" ELSE discardPile[1].color,
   game_state |-> "waiting",
   \* column defaults of the migrations
   play_history |-> <<>>,
   winner_id |-> NoId,
   pending_draw_total |-> 0,
   pending_draw_type |-> NoType,
   stacking_timer |-> NoTimer]

NewPlayerRow(c, hand, position, isHost) ==
  [exists |-> TRUE, player_id |-> c, hand |-> hand, position |-> position,
   is_host |-> isHost, seated |-> FALSE, seated_position |-> -1]

createGame(c) ==
  /\ ClickStep
  /\ stale' = {}
  /\ c = Host
  /\ gameState[c] = "lobby"
  /\ ~games.exists
  /\ MaxPlayersAllowed(MaxPlayers)
  /\ \E shuffled \in shuffleDeck(TableDeck) :
       LET playerHand == Take(shuffled, DealSize)
           rest == Drop(shuffled, DealSize)
           discardPile == <<rest[Len(rest)]>>
           deck == SubSeq(rest, 1, Len(rest) - 1)
           row == NewGameRow(c, deck, discardPile)
           rows == [players EXCEPT ![c] = NewPlayerRow(c, playerHand, 0, TRUE)]
       IN /\ games' = row
          /\ players' = rows
          /\ Loaded(c, row, rows, "waiting")
  /\ lastOp' = [op |-> "createGame", client |-> c]
  /\ UNCHANGED <<requests, now, clock, moves, probe>>
  /\ LocalUnchanged

----------------------------------------------------------------------------
(* joinGame 1241-1302: reads the game and its players, overwrites draw_pile, *)
(* inserts the player row, appends the history entry, loads the game.       *)

\* 1260-1264: the draw pile written back, from a freshly shuffled deck
JoinedDrawPile(drawPile, deck) == DropLast(drawPile, DealSize) \o deck

joinGame(c) ==
  /\ ClickStep
  /\ Notify
  /\ gameState[c] \in {"lobby", "joining"}
  /\ ~game[c].exists
  /\ games.exists
  /\ CanSuspend
  /\ LET existingPlayers == PlayerRows(players)
     IN /\ Len(existingPlayers) < games.max_players
        /\ \E shuffled \in shuffleDeck(TableDeck) :
             LET playerHand == Take(shuffled, DealSize)
                 deck == Drop(shuffled, DealSize)
             IN /\ games' = UpdateRow(games,
                      [draw_pile |-> JoinedDrawPile(games.draw_pile, deck)])
                /\ requests' = requests \cup
                     {[client |-> c, op |-> "joinGame", n |-> 1,
                       row |-> NewPlayerRow(c, playerHand, Len(existingPlayers), FALSE),
                       columns |-> [play_history |-> games.play_history
                                      \o <<Entry(c, "joined the game", 0)>>]]}
  /\ lastOp' = [op |-> "joinGame", client |-> c]
  /\ UNCHANGED <<players, game, gameState, moves, probe>>
  /\ LocalUnchanged
  /\ TimerUnchanged

\* 1265-1284: the insert (refused on a taken position), the history entry,
\* loadGame and setGameState('playing')
joinGameInsert(r) ==
  /\ UNCHANGED races
  /\ Notify
  /\ r \in requests
  /\ r.op = "joinGame"
  /\ LET c == r.client
         rows == IF PositionFree(players, c, r.row.position)
                 THEN [players EXCEPT ![c] = r.row] ELSE players
         row == UpdateRow(games, r.columns)
     IN /\ players' = rows
        /\ games' = row
        /\ Loaded(c, row, rows, "playing")
  /\ requests' = requests \ {r}
  /\ UNCHANGED <<now, clock, moves, lastOp, probe>>
  /\ LocalUnchanged

----------------------------------------------------------------------------
(* Seating: startGame 1303-1308, beginGame 1310-1318, seatPlayer 1320-1332, *)
(* unseatPlayer 1334-1341, and the buttons that call them (1846-1933).     *)

NumSeats == 2       \* seats offered while seating (8 in the code)
NumLobbySeats == 3  \* seats offered when only the lobby and the seating run

IsHostView(c) == HasMyPlayer(game[c], c) /\ myPlayer(game[c], c).isHost

SeatedIn(g) == {i \in 1..Len(g.players) : g.players[i].seated}

startGame(c) ==
  /\ ClickStep
  /\ Notify
  /\ gameState[c] = "waiting" /\ IsHostView(c)
  /\ Len(game[c].players) >= 2
  /\ games' = UpdateRow(games, [game_state |-> "seating"])
  /\ lastOp' = [op |-> "startGame", client |-> c]
  /\ UNCHANGED <<players, game, gameState, requests, moves, probe>>
  /\ LocalUnchanged
  /\ TimerUnchanged

beginGame(c) ==
  /\ ClickStep
  /\ Notify
  /\ gameState[c] = "seating" /\ IsHostView(c)
  /\ Cardinality(SeatedIn(game[c])) >= 2
  /\ games' = UpdateRow(games, [game_state |-> "playing"])
  /\ lastOp' = [op |-> "beginGame", client |-> c]
  /\ UNCHANGED <<players, game, gameState, requests, moves, probe>>
  /\ LocalUnchanged
  /\ TimerUnchanged

\* a variant of seatPlayerColumns that leaves the column position alone
seatPlayerColumns_SeatOnly(position) ==
  [seated |-> TRUE, seated_position |-> position]

\* 1327-1331: the columns seatPlayer writes
seatPlayerColumns(position) ==
  [seated |-> TRUE, seated_position |-> position, position |-> position]

\* the store takes an update of a players row unless it writes a position
\* that another row of the game has
UpdateTaken(rows, id, columns) ==
  "position" \in DOMAIN columns => PositionFree(rows, id, columns.position)

\* the seat clicked is empty in the view and an unseated player is selected
seatPlayer(c, playerId, position) ==
  /\ ClickStep
  /\ stale' = IF UpdateTaken(players, playerId, seatPlayerColumns(position))
              THEN Subscribers ELSE stale
  /\ gameState[c] = "seating" /\ IsHostView(c)
  /\ LET g == game[c]
     IN /\ \E i \in 1..Len(g.players) : g.players[i].id = playerId /\ ~g.players[i].seated
        /\ ~\E i \in SeatedIn(g) : g.players[i].seatedPosition = position
  /\ players[playerId].exists
  /\ players' = IF UpdateTaken(players, playerId, seatPlayerColumns(position))
                THEN [players EXCEPT ![playerId] =
                        UpdateRow(@, seatPlayerColumns(position))]
                ELSE players
  /\ lastOp' = [op |-> "seatPlayer", client |-> c]
  /\ UNCHANGED <<games, game, gameState, requests, moves, probe>>
  /\ LocalUnchanged
  /\ TimerUnchanged

\* the seat clicked holds playerId in the view
unseatPlayer(c, playerId) ==
  /\ ClickStep
  /\ Notify
  /\ gameState[c] = "seating" /\ IsHostView(c)
  /\ \E i \in SeatedIn(game[c]) : game[c].players[i].id = playerId
  /\ players[playerId].exists
  /\ players' = [players EXCEPT ![playerId] =
                   UpdateRow(@, [seated |-> FALSE, seated_position |-> -1])]
  /\ lastOp' = [op |-> "unseatPlayer", client |-> c]
  /\ UNCHANGED <<games, game, gameState, requests, moves, probe>>
  /\ LocalUnchanged
  /\ TimerUnchanged

----------------------------------------------------------------------------
(* Card selection: selectCard 443-533, and the clicks that reach it.        *)

\* The colour modal and the game-over overlay cover the table (z-50).
\* The table is rendered in every state but lobby and joining (1630-1723).
TableClickable(c) ==
  ~showColorSelect[c] /\ gameState[c] \in {"waiting", "seating", "playing"}

IsMyTurn(g, c) == PlayerIdAt(g, g.currentPlayerIndex) = c

\* a variant of selectCardResult that takes every card after the first
selectCardResult_NoStackCheck(g, sel, card) ==
  IF \E i \in 1..Len(sel) : sel[i].id = card.id
  THEN Filter(sel, {x \in Range(sel) : x.id # card.id})
  ELSE IF g.pendingDrawTotal > 0 /\ g.pendingDrawType # NoType /\ ~canPlayDrawCard(g, card)
  THEN sel
  ELSE IF ~canPlayCard(g, sel, card) THEN sel
  ELSE Append(sel, card)

\* selectedCards after selectCard(card): unchanged when the card is refused
selectCardResult(g, sel, card) ==
  IF \E i \in 1..Len(sel) : sel[i].id = card.id
  THEN Filter(sel, {x \in Range(sel) : x.id # card.id})
  ELSE IF g.pendingDrawTotal > 0 /\ g.pendingDrawType # NoType /\ ~canPlayDrawCard(g, card)
  THEN sel
  ELSE IF ~canPlayCard(g, sel, card) THEN sel
  ELSE IF Len(sel) = 0 THEN <<card>>
  ELSE IF canStackCard(sel[1], card) THEN Append(sel, card)
  ELSE sel

selectCard(c, card) ==
  /\ ClickStep
  /\ UNCHANGED stale
  /\ TableClickable(c)
  /\ HasMyPlayer(game[c], c)
  /\ card \in Range(myPlayer(game[c], c).hand)
  /\ gameState[c] = "playing"
  /\ LET g == game[c]
         sel == IF IsMyTurn(g, c) THEN selectCardResult(g, selectedCards[c], card)
                ELSE selectedCards[c]
     IN /\ selectedCards' = [selectedCards EXCEPT ![c] = sel]
        /\ lastOp' = [op |-> "selectCard", client |-> c,
                      changed |-> sel # selectedCards[c]]
  /\ UNCHANGED <<games, players, game, gameState, pendingWildCards, showColorSelect,
                 requests, moves, probe>>
  /\ TimerUnchanged

----------------------------------------------------------------------------
(* Playing cards: playSelectedCards 614-625, executeCardPlay 626-800,       *)
(* handleColorSelect 1043-1049.                                            *)

\* newHand.splice(index, 1), index 0-based; nothing when index is -1
RemoveAt(s, index) ==
  IF index < 0 THEN s ELSE SubSeq(s, 1, index) \o SubSeq(s, index + 2, Len(s))

\* 640-646: each played card leaves the hand once, found by id
RECURSIVE RemoveCards(_, _)
RemoveCards(hand, cards) ==
  IF cards = <<>> THEN hand
  ELSE RemoveCards(
         RemoveAt(hand, FindIndex(hand, {x \in Range(hand) : x.id = Head(cards).id})),
         Tail(cards))

IsDrawCard(card) == card.type = "draw2" \/ card.type = "wild4"

\* a variant of DrawAmount in which a wild4 counts as a draw2
DrawAmount_WildFourAddsTwo(cards) ==
  SumSeq([i \in 1..Len(cards) |-> IF IsDrawCard(cards[i]) THEN 2 ELSE 0])

\* 659-662: 2 per draw2, 4 per wild4
DrawAmount(cards) ==
  SumSeq([i \in 1..Len(cards) |->
            IF cards[i].type = "draw2" THEN 2
            ELSE IF cards[i].type = "wild4" THEN 4 ELSE 0])

\* selectedColor: set by handleColorSelect and reset when executeCardPlay ends
selectedColor(c) ==
  IF \E r \in requests : r.client = c /\ r.op = "executeCardPlay" /\ r.selectedColor # NoColor
  THEN (CHOOSE r \in requests :
          r.client = c /\ r.op = "executeCardPlay" /\ r.selectedColor # NoColor).selectedColor
  ELSE NoColor

\* 653-681: the pending-draw fields and the colour of gameUpdate.  The
\* deadline is marked only: Date.now() is read when the update is sent.
NewPending(g, cards) ==
  LET drawCards == Filter(cards, {x \in Range(cards) : IsDrawCard(x)})
  IN IF Len(drawCards) > 0
     THEN [total |-> g.pendingDrawTotal + DrawAmount(drawCards),
           type |-> IF drawCards[1].type = "draw2" THEN "draw2" ELSE "wild4",
           timer |-> g.stackingTimer, fresh |-> TRUE]
     ELSE IF g.pendingDrawTotal > 0
     THEN [total |-> 0, type |-> NoType, timer |-> NoTimer, fresh |-> FALSE]
     ELSE [total |-> g.pendingDrawTotal, type |-> g.pendingDrawType,
           timer |-> g.stackingTimer, fresh |-> FALSE]

\* a variant of NewColor that takes no notice of the chosen colour
NewColor_LastCardWins(g, cards, chosenColor) ==
  IF cards[Len(cards)].color = "wild" THEN g.currentColor ELSE cards[Len(cards)].color

NewColor(g, cards, chosenColor) ==
  LET newColor == IF chosenColor # NoColor THEN chosenColor ELSE cards[Len(cards)].color
  IN IF newColor = "wild" THEN g.currentColor ELSE newColor

\* 709-725: the entry of the play, then one entry per skipped player
PlayEntries(c, cards, effects) ==
  <<Entry(c, "played", Len(cards))>> \o
  [i \in 1..Len(effects.skippedPlayers) |-> Entry(effects.skippedPlayers[i], "was skipped", 0)]

\* a variant of gameUpdate in which a play that leaves a pending draw does
\* not end the round
gameUpdate_PendingKeepsPlaying(g, c, cards, chosenColor) ==
  LET effects == calculateCardEffects(g, cards)
      newHand == RemoveCards(myPlayer(g, c).hand, cards)
      pending == NewPending(g, cards)
      won == Len(newHand) = 0 /\ pending.total = 0
  IN [discard_pile |-> g.discardPile \o cards,
      current_color |-> NewColor(g, cards, chosenColor),
      current_player_index |-> effects.nextPlayerIndex,
      direction |-> effects.newDirection,
      play_history |-> g.playHistory \o PlayEntries(c, cards, effects),
      pending_draw_total |-> pending.total,
      pending_draw_type |-> pending.type,
      stacking_timer |-> pending.timer,
      winner_id |-> IF won THEN c ELSE NoId,
      game_state |-> IF won THEN "ended" ELSE "playing"]

\* 745-759: gameUpdate
gameUpdate(g, c, cards, chosenColor) ==
  LET effects == calculateCardEffects(g, cards)
      newHand == RemoveCards(myPlayer(g, c).hand, cards)
      pending == NewPending(g, cards)
  IN [discard_pile |-> g.discardPile \o cards,
      current_color |-> NewColor(g, cards, chosenColor),
      current_player_index |-> effects.nextPlayerIndex,
      direction |-> effects.newDirection,
      play_history |-> g.playHistory \o PlayEntries(c, cards, effects),
      pending_draw_total |-> pending.total,
      pending_draw_type |-> pending.type,
      stacking_timer |-> pending.timer,
      winner_id |-> IF Len(newHand) = 0 THEN c ELSE NoId,
      game_state |-> IF Len(newHand) = 0 THEN "ended" ELSE "playing"]

\* executeCardPlay up to its first await: the hand is written (649-651)
StartCardPlay(c, cards, chosenColor) ==
  LET g == game[c]
      columns == gameUpdate(g, c, cards, chosenColor)
  IN /\ HasMyPlayer(g, c)
     /\ CanSuspend
     /\ moves < MaxMoves
     /\ moves' = moves + 1
     /\ Notify
     /\ players' = [players EXCEPT ![c] =
                      UpdateRow(@, [hand |-> RemoveCards(myPlayer(g, c).hand, cards)])]
     /\ requests' = requests \cup
          {[client |-> c, op |-> "executeCardPlay", n |-> 0, step |-> "update",
            selectedColor |-> chosenColor, cards |-> cards,
            fresh |-> NewPending(g, cards).fresh, columns |-> columns]}
     /\ lastOp' = [op |-> "executeCardPlay", client |-> c,
                   legal |-> canPlayCard(g, <<>>, cards[1]), myTurn |-> IsMyTurn(g, c)]

\* the discard pile is clicked with a selection (1990-1993, 614-625)
playSelectedCards(c) ==
  /\ ClickStep
  /\ TableClickable(c)
  /\ HasMyPlayer(game[c], c)
  /\ Len(selectedCards[c]) > 0
  /\ LET hasWild == \E i \in 1..Len(selectedCards[c]) : selectedCards[c][i].color = "wild"
     IN IF hasWild /\ selectedColor(c) = NoColor
        THEN /\ pendingWildCards' = [pendingWildCards EXCEPT ![c] = selectedCards[c]]
             /\ showColorSelect' = [showColorSelect EXCEPT ![c] = TRUE]
             /\ lastOp' = [op |-> "playSelectedCards", client |-> c]
             /\ UNCHANGED <<players, requests, moves, stale>>
        ELSE /\ StartCardPlay(c, selectedCards[c], selectedColor(c))
             /\ UNCHANGED <<pendingWildCards, showColorSelect>>
  /\ UNCHANGED <<games, game, gameState, selectedCards, probe>>
  /\ TimerUnchanged

\* a colour of the modal is clicked (1043-1049); the modal is only ever
\* opened with pendingWildCards set, by a client that has a player
handleColorSelect(c, color) ==
  /\ ClickStep
  /\ showColorSelect[c]
  /\ Len(pendingWildCards[c]) > 0
  /\ showColorSelect' = [showColorSelect EXCEPT ![c] = FALSE]
  /\ StartCardPlay(c, pendingWildCards[c], color)
  /\ UNCHANGED <<games, game, gameState, selectedCards, pendingWildCards, probe>>
  /\ TimerUnchanged

\* the modal is closed without a colour (onClose, 2075)
closeColorSelect(c) ==
  /\ ClickStep
  /\ UNCHANGED stale
  /\ showColorSelect[c]
  /\ showColorSelect' = [showColorSelect EXCEPT ![c] = FALSE]
  /\ lastOp' = [op |-> "closeColorSelect", client |-> c]
  /\ UNCHANGED <<games, players, game, gameState, selectedCards, pendingWildCards,
                 requests, moves, probe>>
  /\ TimerUnchanged

\* 653-768: the deadline is taken from the clock, the local game is patched
\* when draw cards were played (727-742), the game row is written
executeCardPlayUpdate(r) ==
  /\ UNCHANGED races
  /\ Notify
  /\ r \in requests
  /\ r.op = "executeCardPlay" /\ r.step = "update"
  /\ LET c == r.client
         columns == IF r.fresh THEN [r.columns EXCEPT !.stacking_timer = now + 1]
                    ELSE r.columns
     IN /\ games' = UpdateRow(games, columns)
        /\ now' = IF r.fresh THEN now + 1 ELSE now
        /\ game' = IF r.fresh /\ game[c].exists
                   THEN [game EXCEPT ![c] =
                           [@ EXCEPT !.currentPlayerIndex = columns.current_player_index,
                                     !.pendingDrawTotal = columns.pending_draw_total,
                                     !.pendingDrawType = columns.pending_draw_type,
                                     !.stackingTimer = columns.stacking_timer,
                                     !.currentColor = columns.current_color,
                                     !.direction = columns.direction]]
                   ELSE game
        /\ requests' = (requests \ {r}) \cup
             {[r EXCEPT !.step = "done", !.columns = columns]}
  /\ UNCHANGED <<players, gameState, drawTimer, timerGame, clock, moves, lastOp, probe>>
  /\ LocalUnchanged

\* 770-783: after the write, `direction` of the local game and the selection
executeCardPlayDone(r) ==
  /\ UNCHANGED races
  /\ UNCHANGED stale
  /\ r \in requests
  /\ r.op = "executeCardPlay" /\ r.step = "done"
  /\ LET c == r.client
     IN /\ game' = IF game[c].exists
                   THEN [game EXCEPT ![c] = [@ EXCEPT !.direction = r.columns.direction]]
                   ELSE game
        /\ selectedCards' = [selectedCards EXCEPT ![c] = <<>>]
        /\ pendingWildCards' = [pendingWildCards EXCEPT ![c] = <<>>]
        /\ showColorSelect' = [showColorSelect EXCEPT ![c] = FALSE]
  /\ requests' = requests \ {r}
  /\ UNCHANGED <<games, players, gameState, moves, lastOp, probe>>
  /\ TimerUnchanged

----------------------------------------------------------------------------
(* Drawing: drawCards 1105-1193, and the forced draw handleDrawTimeout     *)
(* 1050-1102 that the timer effect 271-285 starts.                         *)

\* a variant of DrawnHand that draws one card fewer
DrawnHand_OneShort(hand, drawPile, n) ==
  SubSeq(drawPile, Len(drawPile) - n + 2, Len(drawPile)) \o hand

\* n times newHand.unshift(newDrawPile.pop())
DrawnHand(hand, drawPile, n) == SubSeq(drawPile, Len(drawPile) - n + 1, Len(drawPile)) \o hand
DrawnPile(drawPile, n) == SubSeq(drawPile, 1, Len(drawPile) - n)

\* 1072-1076, 1148-1152: the next seated player, as an index of game.players;
\* with nobody seated the remainder is NaN and findIndex returns -1
NextPlayerIndex(g) ==
  LET seatedPlayers == getSeatedPlayers(g)
      k == Len(seatedPlayers)
  IN IF k = 0 THEN -1
     ELSE LET nextId == seatedPlayers[StepSeat(getCurrentSeatedPlayerIndex(g), g.direction, k) + 1].id
          IN FindIndex(g.players, {p \in Range(g.players) : p.id = nextId})

\* a variant of TopDrawColor that takes the colour of the top card as it is
TopDrawColor_OfTopCard(g) ==
  IF ~HasTopCard(g) THEN NoColor ELSE topCard(g).color

\* 1079-1080, 1154-1155: the colour of the draw card on top
TopDrawColor(g) ==
  IF ~HasTopCard(g) THEN NoColor
  ELSE IF topCard(g).color = "wild" THEN g.currentColor ELSE topCard(g).color

\* a variant of drawUpdate that leaves the deadline of a drawn stack in place
drawUpdate_KeepsDeadline(g, c) ==
  LET shouldSkipTurn == g.pendingDrawTotal > 0
      drawAmount == IF shouldSkipTurn THEN g.pendingDrawTotal ELSE 1
  IN [draw_pile |-> DrawnPile(g.drawPile, drawAmount),
      current_player_index |-> IF shouldSkipTurn THEN NextPlayerIndex(g)
                               ELSE g.currentPlayerIndex,
      current_color |-> IF shouldSkipTurn THEN TopDrawColor(g) ELSE g.currentColor,
      pending_draw_total |-> IF shouldSkipTurn THEN 0 ELSE g.pendingDrawTotal,
      pending_draw_type |-> IF shouldSkipTurn THEN NoType ELSE g.pendingDrawType,
      stacking_timer |-> g.stackingTimer,
      play_history |-> g.playHistory \o <<Entry(c, "drew", drawAmount)>>]

\* a variant of drawUpdate in which every draw passes the turn
drawUpdate_AlwaysPassesTurn(g, c) ==
  LET shouldSkipTurn == g.pendingDrawTotal > 0
      drawAmount == IF shouldSkipTurn THEN g.pendingDrawTotal ELSE 1
  IN [draw_pile |-> DrawnPile(g.drawPile, drawAmount),
      current_player_index |-> NextPlayerIndex(g),
      current_color |-> IF shouldSkipTurn THEN TopDrawColor(g) ELSE g.currentColor,
      pending_draw_total |-> IF shouldSkipTurn THEN 0 ELSE g.pendingDrawTotal,
      pending_draw_type |-> IF shouldSkipTurn THEN NoType ELSE g.pendingDrawType,
      stacking_timer |-> IF shouldSkipTurn THEN NoTimer ELSE g.stackingTimer,
      play_history |-> g.playHistory \o <<Entry(c, "drew", drawAmount)>>]

\* 1162-1170
drawUpdate(g, c) ==
  LET shouldSkipTurn == g.pendingDrawTotal > 0
      drawAmount == IF shouldSkipTurn THEN g.pendingDrawTotal ELSE 1
  IN [draw_pile |-> DrawnPile(g.drawPile, drawAmount),
      current_player_index |-> IF shouldSkipTurn THEN NextPlayerIndex(g)
                               ELSE g.currentPlayerIndex,
      current_color |-> IF shouldSkipTurn THEN TopDrawColor(g) ELSE g.currentColor,
      pending_draw_total |-> IF shouldSkipTurn THEN 0 ELSE g.pendingDrawTotal,
      pending_draw_type |-> IF shouldSkipTurn THEN NoType ELSE g.pendingDrawType,
      stacking_timer |-> IF shouldSkipTurn THEN NoTimer ELSE g.stackingTimer,
      play_history |-> g.playHistory \o <<Entry(c, "drew", drawAmount)>>]

\* a variant of RefusalToast in which a pile that is too short is not reported
RefusalToast_Silent(g, c) ==
  IF ~IsMyTurn(g, c) THEN "Not your turn" ELSE "none"

\* 1110-1117, 1126-1133: what drawCards reports when it returns without a draw
RefusalToast(g, c) ==
  IF ~IsMyTurn(g, c) THEN "Not your turn" ELSE "No cards left"

\* the draw pile is clicked: refused when it is not the client's turn or the
\* pile is too short, else the hand is written (1139-1141)
drawCards(c) ==
  /\ ClickStep
  /\ TableClickable(c)
  /\ gameState[c] = "playing"
  /\ HasMyPlayer(game[c], c)
  /\ LET g == game[c]
         drawAmount == IF g.pendingDrawTotal > 0 THEN g.pendingDrawTotal ELSE 1
     IN IF IsMyTurn(g, c) /\ Len(g.drawPile) >= drawAmount
        THEN /\ CanSuspend
             /\ moves < MaxMoves
             /\ moves' = moves + 1
             /\ Notify
             /\ players' = [players EXCEPT ![c] =
                  UpdateRow(@, [hand |-> DrawnHand(myPlayer(g, c).hand, g.drawPile, drawAmount)])]
             /\ requests' = requests \cup
                  {[client |-> c, op |-> "drawCards", n |-> 0,
                    shouldSkipTurn |-> g.pendingDrawTotal > 0,
                    columns |-> drawUpdate(g, c)]}
             /\ lastOp' = [op |-> "drawCards", client |-> c, refused |-> FALSE,
                           toast |-> "none"]
        ELSE /\ lastOp' = [op |-> "drawCards", client |-> c, refused |-> TRUE,
                           toast |-> RefusalToast(g, c)]
             /\ UNCHANGED <<players, requests, moves, stale>>
  /\ UNCHANGED <<games, game, gameState, probe>>
  /\ LocalUnchanged
  /\ TimerUnchanged

\* 1162-1176: the game row is written; setDrawTimer(null) when the turn ended
drawCardsUpdate(r) ==
  /\ UNCHANGED races
  /\ Notify
  /\ r \in requests
  /\ r.op = "drawCards"
  /\ LET c == r.client
     IN /\ games' = UpdateRow(games, r.columns)
        /\ drawTimer' = IF r.shouldSkipTurn THEN [drawTimer EXCEPT ![c] = NoTimer]
                        ELSE drawTimer
        /\ timerGame' = IF r.shouldSkipTurn THEN [timerGame EXCEPT ![c] = NoGame]
                        ELSE timerGame
  /\ requests' = requests \ {r}
  /\ UNCHANGED <<players, game, gameState, now, clock, moves, lastOp, probe>>
  /\ LocalUnchanged

\* 1082-1093
timeoutUpdate(g, c) ==
  LET n == IF g.pendingDrawTotal < Len(g.drawPile) THEN g.pendingDrawTotal
           ELSE Len(g.drawPile)
  IN [current_player_index |-> NextPlayerIndex(g),
      current_color |-> TopDrawColor(g),
      pending_draw_total |-> 0,
      pending_draw_type |-> NoType,
      stacking_timer |-> NoTimer,
      draw_pile |-> DrawnPile(g.drawPile, n),
      play_history |-> g.playHistory \o <<Entry(c, "drew (timer expired)", g.pendingDrawTotal)>>]

\* 1058-1064: the pending total, or what the draw pile still holds
timeoutHand(g, c) ==
  LET n == IF g.pendingDrawTotal < Len(g.drawPile) THEN g.pendingDrawTotal
           ELSE Len(g.drawPile)
  IN DrawnHand(myPlayer(g, c).hand, g.drawPile, n)

\* The interval ticks while more than a second remains: drawTimer changes, the
\* effect runs again and its closure captures the game of the new render.
TimerTick(c) ==
  /\ UNCHANGED races
  /\ UNCHANGED stale
  /\ Armed(c)
  /\ timerGame[c] # game[c]
  /\ timerGame' = [timerGame EXCEPT ![c] = game[c]]
  /\ UNCHANGED <<games, players, game, gameState, drawTimer, requests, now, clock, moves, lastOp, probe>>
  /\ LocalUnchanged

\* The last tick (274-279): drawTimer becomes null and handleDrawTimeout of the
\* captured render is called from inside the state updater, once per
\* invocation of the updater (React may invoke an updater more than once).
\* Each call returns at once unless its game says the turn is this client's
\* (1057); otherwise it writes the hand and suspends before the game row.
TimerExpire(c, signals) ==
  /\ ClickStep
  /\ Armed(c)
  /\ drawTimer' = [drawTimer EXCEPT ![c] = NoTimer]
  /\ timerGame' = [timerGame EXCEPT ![c] = NoGame]
  /\ clock' = [clock EXCEPT ![c] = IF drawTimer[c] > @ THEN drawTimer[c] ELSE @]
  /\ LET g == timerGame[c]
     IN IF g.exists /\ IsMyTurn(g, c)
        THEN /\ Notify
             /\ players' = [players EXCEPT ![c] = UpdateRow(@, [hand |-> timeoutHand(g, c)])]
             /\ requests' = requests \cup
                  {[client |-> c, op |-> "handleDrawTimeout", n |-> signals,
                    signals |-> signals, deadline |-> drawTimer[c],
                    columns |-> timeoutUpdate(g, c)]}
             /\ lastOp' = [op |-> "handleDrawTimeout", client |-> c, refused |-> FALSE]
        ELSE /\ lastOp' = [op |-> "handleDrawTimeout", client |-> c, refused |-> TRUE]
             /\ UNCHANGED <<players, requests, stale>>
  /\ UNCHANGED <<games, game, gameState, now, moves, probe>>
  /\ LocalUnchanged

\* 1082-1093: the game row of a forced draw is written by one of the r.n
\* calls that are suspended with the same update
handleDrawTimeoutUpdate(r) ==
  /\ UNCHANGED races
  /\ Notify
  /\ r \in requests
  /\ r.op = "handleDrawTimeout"
  /\ games' = UpdateRow(games, r.columns)
  /\ requests' = (requests \ {r}) \cup
                   (IF r.n > 1 THEN {[r EXCEPT !.n = r.n - 1]} ELSE {})
  /\ UNCHANGED <<players, game, gameState, moves, lastOp, probe>>
  /\ LocalUnchanged
  /\ TimerUnchanged

\* The stored deadline passes on the clock of a browser before the
\* notification of it gets there.
DeadlinePasses(c) ==
  /\ UNCHANGED races
  /\ UNCHANGED stale
  /\ c \in stale
  /\ ~Armed(c)
  /\ games.stacking_timer > clock[c]
  /\ clock' = [clock EXCEPT ![c] = games.stacking_timer]
  /\ UNCHANGED <<games, players, game, gameState, drawTimer, timerGame, requests, now, moves, lastOp, probe>>
  /\ LocalUnchanged

----------------------------------------------------------------------------
(* The game: every handler of every browser, in any order. *)

Cards == Range(TableDeck)
Seats == 0..(NumSeats - 1)

Next ==
  \/ \E c \in Clients : createGame(c)
  \/ \E c \in Clients : joinGame(c)
  \/ \E r \in requests : joinGameInsert(r)
  \/ \E c \in Clients : loadGame(c)
  \/ \E c \in Clients : startGame(c)
  \/ \E c \in Clients : beginGame(c)
  \/ \E c, q \in Clients : \E position \in Seats : seatPlayer(c, q, position)
  \/ \E c, q \in Clients : unseatPlayer(c, q)
  \/ \E c \in Clients : \E card \in Cards : selectCard(c, card)
  \/ \E c \in Clients : playSelectedCards(c)
  \/ \E c \in Clients : \E color \in Range(colors) : handleColorSelect(c, color)
  \/ \E c \in Clients : closeColorSelect(c)
  \/ \E r \in requests : executeCardPlayUpdate(r)
  \/ \E r \in requests : executeCardPlayDone(r)
  \/ \E c \in Clients : drawCards(c)
  \/ \E r \in requests : drawCardsUpdate(r)
  \/ \E c \in Clients : TimerTick(c)
  \/ \E c \in Clients : \E signals \in 1..MaxSignals : TimerExpire(c, signals)
  \/ \E r \in requests : handleDrawTimeoutUpdate(r)
  \/ \E c \in Clients : DeadlinePasses(c)

Spec == Init /\ [][Next]_vars

----------------------------------------------------------------------------
(* The lobby and the seating on their own, with every browser taking part  *)
(* and a seat for each of them.                                            *)

LobbySeats == 0..(NumLobbySeats - 1)

NextLobby ==
  \/ \E c \in Browsers : createGame(c)
  \/ \E c \in Browsers : joinGame(c)
  \/ \E r \in requests : joinGameInsert(r)
  \/ \E c \in Browsers : loadGame(c)
  \/ \E c \in Browsers : startGame(c)
  \/ \E c \in Browsers : beginGame(c)
  \/ \E c, q \in Browsers : \E position \in LobbySeats : seatPlayer(c, q, position)
  \/ \E c, q \in Browsers : unseatPlayer(c, q)

SpecLobby == Init /\ [][NextLobby]_vars

----------------------------------------------------------------------------
(* canPlayCard on its own: every card against every top discard, current   *)
(* colour and pending draw.                                                *)

MaxProbeValue == 2    \* number cards 0..MaxProbeValue are tried

\* one card of every face that generateDeck produces
ProbeCards ==
  {UnoCard(color, "number", value, 1, 0) : color \in Range(colors), value \in 0..MaxProbeValue}
  \cup {UnoCard(color, type, NoValue, 1, 0) : color \in Range(colors), type \in Range(actionTypes)}
  \cup {UnoCard("wild", type, NoValue, 0, 0) : type \in {"wild", "wild4"}}

\* the pending draws a game row can hold: none, or a total with its kind
ProbePending ==
  {[total |-> 0, type |-> NoType], [total |-> 2, type |-> "draw2"],
   [total |-> 4, type |-> "wild4"]}

\* the part of `game` that canPlayCard reads
ProbeTable(top, currentColor, pending) ==
  [discardPile |-> <<top>>, currentColor |-> currentColor,
   pendingDrawTotal |-> pending.total, pendingDrawType |-> pending.type]

ProbeCanPlayCard ==
  /\ probe = NoProbe
  /\ \E card \in ProbeCards, top \in ProbeCards, currentColor \in Range(colors),
        pending \in ProbePending :
       probe' = [op |-> "canPlayCard", card |-> card, top |-> top,
                 currentColor |-> currentColor, pending |-> pending,
                 result |-> canPlayCard(ProbeTable(top, currentColor, pending), <<>>, card)]
  /\ UNCHANGED <<games, players, game, gameState, selectedCards, pendingWildCards,
                 showColorSelect, drawTimer, timerGame, requests, stale, races,
                 now, clock, moves, lastOp>>

SpecCanPlay == Init /\ [][ProbeCanPlayCard]_vars

----------------------------------------------------------------------------
(* calculateCardEffects on its own: k seated players in either seat order, *)
(* with or without an unseated player before them, any current seat, both  *)
(* directions, every play of up to MaxPlay cards.                          *)

MaxSeated == 3        \* seated players tried: 2..MaxSeated
MaxPlay == 3          \* cards in a play

ProbeTypes == {"number", "skip", "reverse", "draw2", "wild4"}
ProbeCard(type) ==
  IF type = "number" THEN UnoCard("red", "number", 0, 1, 0)
  ELSE IF type = "wild4" THEN UnoCard("wild", "wild4", NoValue, 0, 0)
  ELSE UnoCard("red", type, NoValue, 1, 0)

ProbePlays == UNION {[1..n -> ProbeTypes] : n \in 1..MaxPlay}

\* game.players: k seated players, seatedPosition rising or falling along the
\* array, after an unseated one when `extra`
ProbePlayers(k, rising, extra) ==
  (IF extra
   THEN <<[id |-> "p0", hand |-> <<>>, position |-> 0, isHost |-> FALSE,
           seated |-> FALSE, seatedPosition |-> -1]>>
   ELSE <<>>)
  \o [i \in 1..k |->
        [id |-> PlayerIds[i], hand |-> <<>>, position |-> i, isHost |-> FALSE,
         seated |-> TRUE, seatedPosition |-> IF rising THEN i - 1 ELSE k - i]]

\* the index in game.players of the player with seated index c
ProbeIndex(k, rising, extra, c) ==
  (IF rising THEN c ELSE k - 1 - c) + (IF extra THEN 1 ELSE 0)

\* the part of `game` that calculateCardEffects reads
ProbeSeats(k, rising, extra, c, d) ==
  [players |-> ProbePlayers(k, rising, extra),
   currentPlayerIndex |-> ProbeIndex(k, rising, extra, c),
   direction |-> d]

ProbeCardEffects ==
  /\ probe = NoProbe
  /\ \E k \in 2..MaxSeated, rising \in BOOLEAN, extra \in BOOLEAN, d \in {1, -1},
        types \in ProbePlays :
       \E c \in 0..(k - 1) :
         LET g == ProbeSeats(k, rising, extra, c, d)
             cards == [i \in 1..Len(types) |-> ProbeCard(types[i])]
             effects == calculateCardEffects(g, cards)
             seatedPlayers == getSeatedPlayers(g)
             nextId == PlayerIdAt(g, effects.nextPlayerIndex)
         IN probe' = [op |-> "calculateCardEffects", k |-> k, c |-> c, d |-> d,
                      types |-> types, effects |-> effects,
                      entries |-> PlayEntries(PlayerIdAt(g, g.currentPlayerIndex),
                                              cards, effects),
                      nextSeated |-> FindIndex(seatedPlayers,
                                       {q \in Range(seatedPlayers) : q.id = nextId})]
  /\ UNCHANGED <<games, players, game, gameState, selectedCards, pendingWildCards,
                 showColorSelect, drawTimer, timerGame, requests, stale, races,
                 now, clock, moves, lastOp>>

SpecEffects == Init /\ [][ProbeCardEffects]_vars

----------------------------------------------------------------------------
(* C3 *)

\* the rule of the claim for the first card of a play
LegalFirstPlay(card, top, currentColor, pending) ==
  IF pending.total > 0
  THEN card.type = pending.type
  ELSE \/ card.color = "wild"
       \/ card.color = currentColor
       \/ card.type = "number" /\ top.type = "number" /\ card.value = top.value
       \/ card.type = top.type /\ card.type \notin {"number", "wild", "wild4"}

\* C3: canPlayCard, for the first card of a play, is true exactly when the
\* card's kind equals the kind of the active pending draw, or, with no pending
\* draw, the card is wild, or of the current colour, or a number on a number
\* of the same value, or of the kind of the top discard where that kind is
\* not number, wild or wild4.
C3_LegalFirstPlay ==
  probe.op = "canPlayCard" =>
    (probe.result <=> LegalFirstPlay(probe.card, probe.top, probe.currentColor, probe.pending))

----------------------------------------------------------------------------
(* C6 *)

RECURSIVE MinusOneTo(_)
MinusOneTo(r) == IF r = 0 THEN 1 ELSE 0 - MinusOneTo(r - 1)

CountType(types, t) == Cardinality({i \in 1..Len(types) : types[i] = t})

\* C6: for k seated players, current seated index c, direction d and a play
\* with s skips and r reverses, calculateCardEffects returns the direction
\* d * (-1)^r and the player at seated index
\* (c + newDirection * (1 + skipCount)) mod k, where skipCount = s plus r when
\* k = 2; draw2 and wild4 cards add nothing.
C6_CardEffects ==
  probe.op = "calculateCardEffects" =>
    LET s == CountType(probe.types, "skip")
        r == CountType(probe.types, "reverse")
        skipCount == s + (IF probe.k = 2 THEN r ELSE 0)
        newDirection == probe.d * MinusOneTo(r)
    IN /\ probe.effects.newDirection = newDirection
       /\ probe.effects.skipEffects = skipCount
       /\ probe.nextSeated = (probe.c + newDirection * (1 + skipCount)) % probe.k

\* seats [A, B], direction +1, A plays one reverse: direction -1, next A
C6_Witness ==
  /\ probe.op = "calculateCardEffects"
  /\ probe.k = 2 /\ probe.c = 0 /\ probe.d = 1 /\ probe.types = <<"reverse">>
  /\ probe.effects.newDirection = -1
  /\ probe.nextSeated = 0

----------------------------------------------------------------------------
(* C1, C2: the cards of the stored round. *)

RECURSIVE SumHands(_)
SumHands(rows) == IF rows = <<>> THEN <<>> ELSE Head(rows).hand \o SumHands(Tail(rows))

\* every card held anywhere in the store: the piles, then the hands
StoredCards ==
  games.draw_pile \o games.discard_pile \o
  SumHands(PlayerRows(players))

\* C1: whenever no handler is between its writes, the draw pile, the discard
\* pile and the hands together hold as many cards as the deck the round was
\* built from.
C1_ClosedCardCount ==
  (games.exists /\ requests = {}) => Len(StoredCards) = Len(TableDeck)

\* C2: in every stored state, also between the two writes of a play or a
\* draw, every card id of the deck is held in exactly one place.
C2_OnePlacePerCard ==
  games.exists =>
    \A card \in Range(TableDeck) :
      Cardinality({i \in 1..Len(StoredCards) : StoredCards[i].id = card.id}) = 1

----------------------------------------------------------------------------
(* C4, C5: what a play is checked against. *)

\* C4: the first card of every play that executeCardPlay applies is legal,
\* per canPlayCard, against the top discard, the current colour and the
\* pending draw that the playing browser holds when the play is applied.
C4_FirstCardLegal ==
  lastOp.op = "executeCardPlay" => lastOp.legal

\* C5: a browser whose game says that it is not the current player starts no
\* play and no draw, and selects no card: the stored round and its own
\* selection stay as they are.
C5_NotCurrentNoChange ==
  [][\A c \in Clients :
       (game[c].exists /\ ~IsMyTurn(game[c], c)) =>
         /\ ~\E r \in requests' \ requests :
               /\ r.client = c
               /\ \/ r.op = "drawCards"
                  \/ r.op = "executeCardPlay" /\ r.step = "update"
         /\ selectedCards'[c] # selectedCards[c] => selectedCards'[c] = <<>>]_vars

----------------------------------------------------------------------------
(* C7, C8: the stored game row. *)

\* C7: while the stored game is 'playing', current_player_index is the index
\* of a player who is seated; stated for the runs in which no click has
\* overtaken a write.
C7_CurrentPlayerSeated ==
  (games.exists /\ games.game_state = "playing" /\ races = 0) =>
    LET rows == PlayerRows(players)
        i == games.current_player_index
    IN i >= 0 /\ i < Len(rows) /\ rows[i + 1].seated

\* C8: in every stored state the pending total is positive exactly when the
\* pending kind is set, and exactly when the response deadline is set.
C8_PendingFieldsAgree ==
  games.exists =>
    /\ (games.pending_draw_total > 0) <=> (games.pending_draw_type # NoType)
    /\ (games.pending_draw_type # NoType) <=> (games.stacking_timer # NoTimer)

\* a stack of two that a second draw2 has raised to four, with the deadline
\* that the second play set
C8_Witness ==
  /\ games.exists
  /\ games.pending_draw_total = 4
  /\ games.pending_draw_type = "draw2"
  /\ games.stacking_timer = 2

----------------------------------------------------------------------------
(* C9, C10: the forced draw. *)

\* the turn and the cards of the stored round
RoundCards ==
  <<games.current_player_index, games.direction, games.draw_pile, games.discard_pile,
    games.pending_draw_total, players>>

\* C9: when one expiry raises two signals, the forced hand grows once and the
\* turn advances once: the write of the second signal leaves the turn, the
\* piles, the pending total and the hands as it finds them.
C9_SecondExpiryNoChange ==
  [][\A r \in requests :
       (r.op = "handleDrawTimeout" /\ r.signals = 2 /\ r.n = 1 /\ r \notin requests')
         => RoundCards' = RoundCards]_vars

\* C10: a timer that fires for a deadline which the stored round no longer
\* carries (the pending draw was answered with a draw card, or drawn) starts
\* no forced draw: no hand is written and no update of the game is prepared.
C10_ResolvedTimerNoOp ==
  [][\A r \in requests' \ requests :
       (r.op = "handleDrawTimeout" /\ r.n = r.signals)
         => games.stacking_timer = r.deadline]_vars

----------------------------------------------------------------------------
(* The game with its scheduling: a notification that is on its way is       *)
(* delivered, a handler suspended at an await resumes, and an armed timer   *)
(* runs down.  Clicks are never forced.                                     *)

Delivered == \E c \in Clients : loadGame(c)

Resumed ==
  \/ \E r \in requests : joinGameInsert(r)
  \/ \E r \in requests : executeCardPlayUpdate(r)
  \/ \E r \in requests : executeCardPlayDone(r)
  \/ \E r \in requests : drawCardsUpdate(r)
  \/ \E r \in requests : handleDrawTimeoutUpdate(r)

RunDown == \E c \in Clients : \E signals \in 1..MaxSignals : TimerExpire(c, signals)

SpecTimer ==
  Init /\ [][Next]_vars /\ WF_vars(Delivered) /\ WF_vars(Resumed) /\ WF_vars(RunDown)

----------------------------------------------------------------------------
(* C11: the forced draw comes. *)

PendingActive ==
  games.exists /\ games.game_state = "playing" /\ games.pending_draw_total > 0

\* C11: a pending draw that is active in a playing round is eventually
\* resolved, also when the current player never clicks again, and whenever
\* that player's browser loaded the state relative to the deadline.
C11_PendingEventuallyForced == PendingActive ~> ~PendingActive

----------------------------------------------------------------------------
(* handleDrawTimeout and drawCards on their own: the hand and the update    *)
(* each computes from the game of its render, for every draw pile of up to  *)
(* MaxPile cards.                                                           *)

MaxPile == 4          \* cards in the draw pile: 0..MaxPile
MaxUnder == 2         \* cards under the top of the discard pile: 0..MaxUnder

\* the part of `game` that handleDrawTimeout and drawCards read
ProbeRound(k, rising, extra, c, d, pile, under, pending) ==
  [players |-> ProbePlayers(k, rising, extra),
   currentPlayerIndex |-> ProbeIndex(k, rising, extra, c),
   direction |-> d,
   drawPile |-> Take(TableDeck, pile),
   discardPile |-> SubSeq(TableDeck, MaxPile + 1, MaxPile + under)
                     \o <<ProbeCard(pending.type)>>,
   currentColor |-> "red",
   playHistory |-> <<>>,
   stackingTimer |-> 1,
   pendingDrawTotal |-> pending.total,
   pendingDrawType |-> pending.type]

ProbeDrawTimeout ==
  /\ probe = NoProbe
  /\ \E k \in 2..MaxSeated, rising \in BOOLEAN, extra \in BOOLEAN, d \in {1, -1},
        pile \in 0..MaxPile, under \in 0..MaxUnder,
        pending \in ProbePending \ {[total |-> 0, type |-> NoType]} :
       \E c \in 0..(k - 1) :
         LET g == ProbeRound(k, rising, extra, c, d, pile, under, pending)
             me == PlayerIdAt(g, g.currentPlayerIndex)
             columns == timeoutUpdate(g, me)
             seatedPlayers == getSeatedPlayers(g)
             nextId == PlayerIdAt(g, columns.current_player_index)
         IN probe' = [op |-> "handleDrawTimeout", k |-> k, c |-> c, d |-> d,
                      pile |-> pile, under |-> under, total |-> pending.total,
                      refused |-> FALSE,
                      handBefore |-> myPlayer(g, me).hand,
                      hand |-> timeoutHand(g, me),
                      columns |-> columns,
                      nextSeated |-> FindIndex(seatedPlayers,
                                       {q \in Range(seatedPlayers) : q.id = nextId})]
  /\ UNCHANGED <<games, players, game, gameState, selectedCards, pendingWildCards,
                 showColorSelect, drawTimer, timerGame, requests, stale, races,
                 now, clock, moves, lastOp>>

\* drawCards on its own; it returns without a write when the pile runs
\* empty during the draw (1126-1133)
ProbeDrawCards ==
  /\ probe = NoProbe
  /\ \E k \in 2..MaxSeated, rising \in BOOLEAN, extra \in BOOLEAN, d \in {1, -1},
        pile \in 0..MaxPile, under \in 0..MaxUnder, pending \in ProbePending :
       \E c \in 0..(k - 1) :
         LET g == ProbeRound(k, rising, extra, c, d, pile, under,
                             IF pending.total = 0 THEN [pending EXCEPT !.type = "number"]
                             ELSE pending)
             gg == [g EXCEPT !.pendingDrawType = pending.type]
             me == PlayerIdAt(gg, gg.currentPlayerIndex)
             drawAmount == IF pending.total > 0 THEN pending.total ELSE 1
             columns == drawUpdate(gg, me)
             seatedPlayers == getSeatedPlayers(gg)
             nextId == PlayerIdAt(gg, columns.current_player_index)
         IN probe' =
              IF pile >= drawAmount
              THEN [op |-> "drawCards", k |-> k, c |-> c, d |-> d,
                    pile |-> pile, under |-> under, total |-> pending.total,
                    refused |-> FALSE,
                    handBefore |-> myPlayer(gg, me).hand,
                    hand |-> DrawnHand(myPlayer(gg, me).hand, gg.drawPile, drawAmount),
                    columns |-> columns,
                    nextSeated |-> FindIndex(seatedPlayers,
                                     {q \in Range(seatedPlayers) : q.id = nextId})]
              ELSE [op |-> "drawCards", k |-> k, c |-> c, d |-> d,
                    pile |-> pile, under |-> under, total |-> pending.total,
                    refused |-> TRUE, toast |-> RefusalToast(gg, me),
                    handBefore |-> myPlayer(gg, me).hand,
                    hand |-> myPlayer(gg, me).hand]
  /\ UNCHANGED <<games, players, game, gameState, selectedCards, pendingWildCards,
                 showColorSelect, drawTimer, timerGame, requests, stale, races,
                 now, clock, moves, lastOp>>

SpecDraws == Init /\ [][ProbeDrawTimeout \/ ProbeDrawCards]_vars

----------------------------------------------------------------------------
(* C12 *)

\* C12: on a timer expiry the current player receives exactly the pending
\* total of cards, the turn passes to the next seated player in the current
\* direction, and the pending total, kind and deadline are cleared; the draw
\* is never cut short.
C12_ForcedDrawInFull ==
  probe.op = "handleDrawTimeout" =>
    /\ Len(probe.hand) = Len(probe.handBefore) + probe.total
    /\ Len(probe.columns.draw_pile) = probe.pile - probe.total
    /\ probe.nextSeated = (probe.c + probe.d) % probe.k
    /\ probe.columns.pending_draw_total = 0
    /\ probe.columns.pending_draw_type = NoType
    /\ probe.columns.stacking_timer = NoTimer

----------------------------------------------------------------------------
(* C13: the stack of draw cards. *)

\* the draw-effect cards of a play, and what the claim says they add
DrawCardsOf(cards) == Filter(cards, {x \in Range(cards) : x.type \in {"draw2", "wild4"}})
ClaimedAmount(cards) ==
  2 * Cardinality({i \in 1..Len(cards) : cards[i].type = "draw2"})
  + 4 * Cardinality({i \in 1..Len(cards) : cards[i].type = "wild4"})

\* C13: a play with draw-effect cards adds 2 per draw2 and 4 per wild4 to the
\* pending total that the playing browser holds (and to the stored total when
\* no click or expiry has overtaken a write), sets the pending kind to the
\* kind of the first draw-effect card, and sets a deadline later than every
\* deadline set before.
C13_DrawStackAccumulates ==
  [][/\ \A r \in requests' \ requests :
          (r.op = "executeCardPlay" /\ r.step = "update" /\ DrawCardsOf(r.cards) # <<>>) =>
            /\ r.fresh
            /\ r.columns.pending_draw_total =
                 game[r.client].pendingDrawTotal + ClaimedAmount(r.cards)
            /\ r.columns.pending_draw_type = DrawCardsOf(r.cards)[1].type
     /\ \A r \in requests \ requests' :
          (r.op = "executeCardPlay" /\ r.step = "update" /\ DrawCardsOf(r.cards) # <<>>) =>
            /\ games'.pending_draw_total = r.columns.pending_draw_total
            /\ games'.pending_draw_type = r.columns.pending_draw_type
            /\ games'.stacking_timer = now' /\ now' > now
            /\ games'.stacking_timer > games.stacking_timer
            /\ races = 0 =>
                 games'.pending_draw_total =
                   games.pending_draw_total + ClaimedAmount(r.cards)]_vars

\* a stack of two draw2 (0 -> 4) answered by one more draw2 (4 -> 6)
C13_Witness ==
  /\ games.exists
  /\ games.pending_draw_total = 6
  /\ games.pending_draw_type = "draw2"
  /\ games.stacking_timer = 2

----------------------------------------------------------------------------
(* C14: the voluntary draw of a stack. *)

\* the player seated next after player `id` in the direction of g; NoId when
\* `id` is not seated
NextSeatedAfter(g, id) ==
  LET seatedPlayers == getSeatedPlayers(g)
      k == Len(seatedPlayers)
      cs == FindIndex(seatedPlayers, {q \in Range(seatedPlayers) : q.id = id})
  IN IF cs = -1 THEN NoId ELSE seatedPlayers[((cs + g.direction) % k) + 1].id

\* C14: when the current player draws while a pending draw of N is active,
\* the hand written is N cards longer than the hand the browser holds (and
\* than the stored hand when no click or expiry has overtaken a write), the
\* update clears the pending total, kind and deadline and names the player
\* seated next after the drawer in the current direction, and the game row
\* is written with exactly that update.
C14_VoluntaryStackDraw ==
  [][/\ \A r \in requests' \ requests :
          (r.op = "drawCards" /\ r.shouldSkipTurn) =>
            LET c == r.client
                g == game[c]
            IN /\ Len(players'[c].hand) = Len(myPlayer(g, c).hand) + g.pendingDrawTotal
               /\ races' = 0 =>
                    Len(players'[c].hand) = Len(players[c].hand) + games.pending_draw_total
               /\ r.columns.pending_draw_total = 0
               /\ r.columns.pending_draw_type = NoType
               /\ r.columns.stacking_timer = NoTimer
               /\ NextSeatedAfter(g, c) # NoId =>
                    PlayerIdAt(g, r.columns.current_player_index) = NextSeatedAfter(g, c)
     /\ \A r \in requests \ requests' :
          (r.op = "drawCards" /\ r.shouldSkipTurn) =>
            /\ games'.pending_draw_total = 0
            /\ games'.pending_draw_type = NoType
            /\ games'.stacking_timer = NoTimer
            /\ games'.current_player_index = r.columns.current_player_index]_vars

\* the same for drawCards on its own, with up to MaxSeated seated players
\* and both directions
StackDrawOnItsOwn ==
  (probe.op = "drawCards" /\ probe.total > 0 /\ ~probe.refused) =>
    /\ Len(probe.hand) = Len(probe.handBefore) + probe.total
    /\ Len(probe.columns.draw_pile) = probe.pile - probe.total
    /\ probe.nextSeated = (probe.c + probe.d) % probe.k
    /\ probe.columns.pending_draw_total = 0
    /\ probe.columns.pending_draw_type = NoType
    /\ probe.columns.stacking_timer = NoTimer

\* a seated player has drawn a stack of 2 into a hand of DealSize cards and
\* the turn has gone to the other seated player
C14_Witness ==
  /\ games.exists /\ requests = {} /\ races = 0
  /\ games.play_history # <<>>
  /\ LET last == games.play_history[Len(games.play_history)]
     IN /\ last.action = "drew" /\ last.n = 2
        /\ players[last.player].seated
        /\ Len(players[last.player].hand) = DealSize + 2
        /\ PlayerRows(players)[games.current_player_index + 1].player_id # last.player
        /\ PlayerRows(players)[games.current_player_index + 1].seated
  /\ games.pending_draw_total = 0

----------------------------------------------------------------------------
(* C15: an empty draw pile during a draw. *)

\* the number of cards a draw asks for
Requested(p) == IF p.total > 0 THEN p.total ELSE 1

\* C15: when the draw pile runs empty during a draw of drawCards or
\* handleDrawTimeout and the discard pile holds more than its top card, the
\* cards under the top are reshuffled into the draw pile and the draw goes
\* on: the hand grows by the number of cards requested (the two piles hold
\* that many).
C15_ReshuffleOnEmptyPile ==
  (/\ probe.op \in {"drawCards", "handleDrawTimeout"}
   /\ probe.pile < Requested(probe)
   /\ probe.under > 0
   /\ probe.pile + probe.under >= Requested(probe))
    => /\ ~probe.refused
       /\ Len(probe.hand) = Len(probe.handBefore) + Requested(probe)

----------------------------------------------------------------------------
(* The early version (src/unnamed/part_000): one browser, the game in React *)
(* state.  The draws of drawCard (374-406) and botPlay (199-215, 264-271),  *)
(* one pass of their loop at a time; the round is held in `probe`.          *)

\* shuffleDeck (73-80): Fisher-Yates returns any permutation of the array
AnyShuffle(deck) ==
  IF deck = <<>> THEN {<<>>}
  ELSE {[i \in 1..Len(deck) |-> deck[f[i]]] : f \in Permutations(1..Len(deck))}

\* what pop() of an empty array pushes into the hand
Undefined == [id |-> <<"undefined">>, color |-> "none", type |-> "none", value |-> NoValue]

\* a variant of Reshuffled in which the top card also goes into the draw pile
Reshuffled_TopAlsoInPile(discardPile) ==
  {[drawPile |-> shuffled, discardPile |-> <<discardPile[Len(discardPile)]>>] :
     shuffled \in AnyShuffle(discardPile)}

\* lastCard = discardPile.pop(); drawPile = shuffleDeck(discardPile);
\* discardPile = [lastCard]
Reshuffled(discardPile) ==
  {[drawPile |-> shuffled, discardPile |-> <<discardPile[Len(discardPile)]>>] :
     shuffled \in AnyShuffle(DropLast(discardPile, 1))}

\* one pass of the loop: reshuffle when the draw pile is empty, then
\* hand.push(drawPile.pop())
DrawOne(p) ==
  {LET drawPile == IF p.drawPile = <<>> THEN piles.drawPile ELSE p.drawPile
   IN [p EXCEPT !.drawPile = DropLast(drawPile, 1),
                !.discardPile = IF p.drawPile = <<>> THEN piles.discardPile ELSE @,
                !.hand = Append(@, IF drawPile = <<>> THEN Undefined
                                   ELSE drawPile[Len(drawPile)]),
                !.left = @ - 1,
                !.reshuffles = IF p.drawPile = <<>> THEN @ + 1 ELSE @] :
     piles \in Reshuffled(p.discardPile)}

\* the first card on the discard pile, not one of TableDeck
EarlyTop == UnoCard("green", "number", 1, 1, 0)

\* a round of the early version at the start of a draw: the draw pile, the
\* discard pile (never empty: 134-148) and the cards still to draw
EarlyRounds(op, drawCounts) ==
  {[op |-> op,
    drawPile |-> Take(TableDeck, pile),
    discardPile |-> SubSeq(TableDeck, MaxPile + 1, MaxPile + under) \o <<EarlyTop>>,
    hand |-> <<>>,
    requested |-> IF drawCount > 0 THEN drawCount ELSE 1,
    left |-> IF drawCount > 0 THEN drawCount ELSE 1,
    reshuffles |-> 0] :
     pile \in 0..MaxPile, under \in 0..MaxUnder, drawCount \in drawCounts}

ProbeUnchanged ==
  UNCHANGED <<games, players, game, gameState, selectedCards, pendingWildCards,
              showColorSelect, drawTimer, timerGame, requests, stale, races,
              now, clock, moves, lastOp>>

\* drawCard (374-406): drawCount cards when a draw is pending, else one
drawCard ==
  /\ probe = NoProbe
  /\ probe' \in EarlyRounds("drawCard", {0, 2, 4})
  /\ ProbeUnchanged

drawCardLoop ==
  /\ probe.op = "drawCard" /\ probe.left > 0
  /\ probe' \in DrawOne(probe)
  /\ ProbeUnchanged

\* botPlay (199-215: the pending draw; 264-271: no playable card)
botPlay ==
  /\ probe = NoProbe
  /\ probe' \in EarlyRounds("botPlay", {0, 2, 4})
  /\ ProbeUnchanged

botPlayLoop ==
  /\ probe.op = "botPlay" /\ probe.left > 0
  /\ probe' \in DrawOne(probe)
  /\ ProbeUnchanged

NextEarly == drawCard \/ drawCardLoop \/ botPlay \/ botPlayLoop

SpecEarly == Init /\ [][NextEarly]_vars

----------------------------------------------------------------------------
(* C16: the reshuffle of the early version. *)

\* the cards (not the undefined entries) of a round, as a sequence
EarlyCards(p) ==
  p.drawPile \o p.discardPile \o Filter(p.hand, {x \in Range(p.hand) : x # Undefined})

\* C16: a pass of the draw loop of drawCard or botPlay that finds the draw
\* pile empty leaves the discard pile holding exactly its previous top card,
\* moves exactly the other discards into the draw pile (one of them is drawn
\* at once), and neither loses nor duplicates a card.
C16_ReshufflePreservesTop ==
  [][(probe.op \in {"drawCard", "botPlay"} /\ probe.left > 0 /\ probe.drawPile = <<>>) =>
       LET top == probe.discardPile[Len(probe.discardPile)]
           others == DropLast(probe.discardPile, 1)
           drawn == Filter(SubSeq(probe'.hand, Len(probe.hand) + 1, Len(probe'.hand)),
                           Range(probe'.hand) \ {Undefined})
       IN /\ probe'.discardPile = <<top>>
          /\ top \notin Range(probe'.drawPile)
          /\ Range(probe'.drawPile \o drawn) = Range(others)
          /\ Len(probe'.drawPile \o drawn) = Len(others)
          /\ Range(EarlyCards(probe')) = Range(EarlyCards(probe))
          /\ Len(EarlyCards(probe')) = Len(EarlyCards(probe))]_vars

\* a draw of four that ran out of cards after one, reshuffled the two
\* discards under the top, and went on
C16_Witness ==
  /\ probe.op = "drawCard" /\ probe.requested = 4 /\ probe.left = 1
  /\ probe.reshuffles = 1
  /\ Len(probe.hand) = 3 /\ Undefined \notin Range(probe.hand)
  /\ probe.discardPile = <<EarlyTop>>
  /\ probe.drawPile = <<>>

----------------------------------------------------------------------------
(* C17: the play that empties the hand. *)

\* C17: when a play leaves the acting player's stored hand empty, the update
\* of that play carries game_state 'ended' and the acting player as
\* winner_id, whatever pending draw the play leaves or finds, and the game
\* row is written with exactly these two values in the write that puts the
\* played cards on the discard pile.
C17_EmptyHandEndsRound ==
  [][/\ \A r \in requests' \ requests :
          (r.op = "executeCardPlay" /\ r.step = "update"
             /\ players'[r.client].hand = <<>>) =>
            /\ r.columns.game_state = "ended"
            /\ r.columns.winner_id = r.client
     /\ \A r \in requests \ requests' :
          (r.op = "executeCardPlay" /\ r.step = "update"
             /\ r.columns.game_state = "ended") =>
            /\ games'.game_state = "ended"
            /\ games'.winner_id = r.client
            /\ games'.discard_pile = r.columns.discard_pile]_vars

\* a player has played the last cards of the hand, draw cards that leave a
\* pending draw, and the round is stored as ended with that player as winner
C17_Witness ==
  /\ games.exists /\ requests = {}
  /\ games.game_state = "ended"
  /\ games.winner_id \in Clients
  /\ players[games.winner_id].exists /\ players[games.winner_id].hand = <<>>
  /\ games.pending_draw_total > 0
  /\ games.play_history[Len(games.play_history)].action = "played"

----------------------------------------------------------------------------
(* C18: forced draws and the end of the round. *)

\* a forced draw begins in this step: a timer has run out and
\* handleDrawTimeout has written the hand of its player
ForcedDrawBegins == \E r \in requests' \ requests : r.op = "handleDrawTimeout" /\ r.n = r.signals

\* the game row of a forced draw is written in this step
ForcedDrawWritten == \E r \in requests \ requests' : r.op = "handleDrawTimeout"

\* C18: once the stored round is 'ended', no timer expiry begins a forced
\* draw, and a step of a forced draw changes no stored hand, neither pile
\* and not the turn.
C18_NoForcedDrawAfterEnd ==
  [][(games.exists /\ games.game_state = "ended") =>
       /\ ~ForcedDrawBegins
       /\ ForcedDrawWritten =>
            /\ [c \in Browsers |-> players'[c].hand] = [c \in Browsers |-> players[c].hand]
            /\ games'.draw_pile = games.draw_pile
            /\ games'.discard_pile = games.discard_pile
            /\ games'.current_player_index = games.current_player_index]_vars

----------------------------------------------------------------------------
(* C19: the colour in play. *)

\* C19: current_color is never 'wild': not in the stored round, not in the
\* game a browser has loaded or patched, and not in an update that a
\* suspended play, draw or forced draw is about to write.
C19_CurrentColorNeverWild ==
  /\ games.exists => games.current_color # "wild"
  /\ \A c \in Browsers : game[c].exists => game[c].currentColor # "wild"
  /\ \A r \in requests :
       r.op \in {"executeCardPlay", "drawCards", "handleDrawTimeout"} =>
         r.columns.current_color # "wild"

\* Round setup on its own (createGame 1197-1212; newGame 1729-1752 computes
\* current_color in the same way): the row built from a deck that puts any
\* card of TableDeck first on the discard pile.
ProbeCreateGame ==
  /\ probe = NoProbe
  /\ \E start \in 0..(Len(TableDeck) - 1) : \E c \in Clients :
       LET shuffled == Strided(TableDeck, start)
           rest == Drop(shuffled, DealSize)
           discardPile == <<rest[Len(rest)]>>
           row == NewGameRow(c, SubSeq(rest, 1, Len(rest) - 1), discardPile)
       IN probe' = [op |-> "createGame", discardPile |-> discardPile,
                    current_color |-> row.current_color]
  /\ ProbeUnchanged

SpecSetup == Init /\ [][ProbeCreateGame]_vars

\* the colour of a new round is one of the four colours: red under a wild
\* card, else the colour of the first discard
SetupColourOnItsOwn ==
  probe.op = "createGame" =>
    /\ probe.current_color \in Range(colors)
    /\ probe.current_color =
         (IF probe.discardPile[1].color = "wild" THEN "red" ELSE probe.discardPile[1].color)

\* a wild4 has been played with a colour chosen, the pending draw it left was
\* drawn at the expiry of the timer, and with the wild4 still on top of the
\* discard pile the stored colour is the chosen one
C19_Witness ==
  /\ games.exists /\ requests = {}
  /\ games.play_history # <<>>
  /\ games.play_history[Len(games.play_history)].action = "drew (timer expired)"
  /\ games.discard_pile[Len(games.discard_pile)].type = "wild4"
  /\ games.discard_pile[Len(games.discard_pile)].color = "wild"
  /\ games.current_color = "yellow"

----------------------------------------------------------------------------
(* C20: wild cards and the choice of a colour. *)

HasWild(cards) == \E i \in 1..Len(cards) : cards[i].color = "wild"

\* C20: the step that opens the colour modal for a selection with a wild
\* card changes neither table of the store and starts no write; every play
\* with a wild card that starts (its first write is the hand) carries a
\* colour chosen from red, blue, green and yellow and an update whose
\* current_color is that colour; and whenever a wild card comes to lie on
\* top of the stored discard pile, the same write stores the chosen colour
\* as current_color.
C20_WildWaitsForColour ==
  [][/\ \A c \in Clients :
          (~showColorSelect[c] /\ showColorSelect'[c]) =>
            /\ HasWild(pendingWildCards'[c])
            /\ games' = games /\ players' = players /\ requests' = requests
     /\ \A r \in requests' \ requests :
          (r.op = "executeCardPlay" /\ r.step = "update" /\ HasWild(r.cards)) =>
            /\ r.selectedColor \in Range(colors)
            /\ r.columns.current_color = r.selectedColor
     /\ \A r \in requests \ requests' :
          (r.op = "executeCardPlay" /\ r.step = "update" /\ HasWild(r.cards)) =>
            games'.current_color = r.selectedColor
     /\ (/\ games.exists
         /\ games'.discard_pile # games.discard_pile
         /\ games'.discard_pile[Len(games'.discard_pile)].color = "wild") =>
          \E r \in requests \ requests' :
            /\ r.op = "executeCardPlay" /\ r.selectedColor \in Range(colors)
            /\ games'.current_color = r.selectedColor]_vars

\* a wild card has been played and lies on top of the discard pile, and the
\* stored colour is green, a colour that no card of TableDeck has
C20_Witness ==
  /\ games.exists /\ requests = {}
  /\ games.play_history # <<>>
  /\ games.play_history[Len(games.play_history)].action = "played"
  /\ HasWild(<<games.discard_pile[Len(games.discard_pile)]>>)
  /\ games.current_color = "green"

----------------------------------------------------------------------------
(* selectCard and playSelectedCards on their own: a hand with two numbers,  *)
(* three kinds of action card and both wild cards, clicked card by card in  *)
(* any order, against a table that may change between two clicks.           *)

MaxClicks == 4        \* clicks on cards of the hand before the play

SelectHand ==
  {UnoCard(color, "number", value, 1, 0) : color \in {"red", "blue"}, value \in 0..1}
  \cup {UnoCard(color, type, NoValue, 1, 0) : color \in {"red", "blue"}, type \in {"skip", "reverse"}}
  \cup {UnoCard("red", "draw2", NoValue, 1, 0), UnoCard("blue", "draw2", NoValue, 1, 0)}
  \cup {UnoCard("wild", type, NoValue, 0, 0) : type \in {"wild", "wild4"}}

\* the tables the clicks are made against
SelectTables ==
  {ProbeTable(UnoCard("red", "number", 0, 2, 0), "red", [total |-> 0, type |-> NoType]),
   ProbeTable(UnoCard("blue", "skip", NoValue, 2, 0), "blue", [total |-> 0, type |-> NoType]),
   ProbeTable(UnoCard("red", "draw2", NoValue, 2, 0), "red", [total |-> 2, type |-> "draw2"]),
   ProbeTable(UnoCard("wild", "wild4", NoValue, 1, 0), "blue", [total |-> 4, type |-> "wild4"])}

\* the browser's turn begins: nothing selected
ProbeSelectStart ==
  /\ probe = NoProbe
  /\ \E g \in SelectTables :
       probe' = [op |-> "selectCard", g |-> g, selectedCards |-> <<>>, clicks |-> 0,
                 deselected |-> FALSE, played |-> <<>>]
  /\ ProbeUnchanged

\* a change notification brings another table (loadGame leaves selectedCards)
ProbeSelectLoad ==
  /\ probe.op = "selectCard" /\ probe.played = <<>>
  /\ \E g \in SelectTables : g # probe.g /\ probe' = [probe EXCEPT !.g = g]
  /\ ProbeUnchanged

\* a card of the hand is clicked (469-533)
ProbeSelectCard ==
  /\ probe.op = "selectCard" /\ probe.played = <<>>
  /\ probe.clicks < MaxClicks
  /\ \E card \in SelectHand :
       LET sel == selectCardResult(probe.g, probe.selectedCards, card)
       IN probe' = [probe EXCEPT !.selectedCards = sel, !.clicks = @ + 1,
                                 !.deselected = @ \/ Len(sel) < Len(probe.selectedCards)]
  /\ ProbeUnchanged

\* the discard pile is clicked (614-625): the selection is what
\* executeCardPlay applies, at once or after the colour was chosen
ProbePlaySelected ==
  /\ probe.op = "selectCard" /\ probe.played = <<>>
  /\ Len(probe.selectedCards) > 0
  /\ probe' = [probe EXCEPT !.played = probe.selectedCards]
  /\ ProbeUnchanged

NextSelect == ProbeSelectStart \/ ProbeSelectLoad \/ ProbeSelectCard \/ ProbePlaySelected

SpecSelect == Init /\ [][NextSelect]_vars

----------------------------------------------------------------------------
(* C21: the cards of one play. *)

\* C21: every play that is applied consists of cards of one kind, and of
\* one number when the kind is number, whatever their colours and whatever
\* cards were selected and deselected before.
C21_StackHomogeneous ==
  probe.op = "selectCard" =>
    \A i \in 1..Len(probe.played) :
      /\ probe.played[i].type = probe.played[1].type
      /\ probe.played[1].type = "number" => probe.played[i].value = probe.played[1].value

\* two cards of one kind and two colours are played after the card selected
\* first was deselected again
C21_Witness ==
  /\ probe.op = "selectCard"
  /\ probe.deselected
  /\ Len(probe.played) = 2
  /\ probe.played[1].color # probe.played[2].color

----------------------------------------------------------------------------
(* C22: the voluntary draw of one card. *)

\* the fields of the stored round that a draw of one card is to leave alone
TurnFields ==
  <<games.current_player_index, games.direction, games.current_color,
    games.discard_pile, games.pending_draw_total, games.pending_draw_type,
    games.stacking_timer>>

\* C22: when the current player draws while no pending draw is active, the
\* hand written is the hand the browser holds with the top card of the draw
\* pile before it (the stored hand and the stored pile when no click or
\* expiry has overtaken a write); the update takes one card off the draw
\* pile and repeats the turn, colour and pending-draw fields of the game the
\* browser holds; and the write of the update leaves direction and discard
\* pile alone, and with nothing overtaken leaves the turn, the colour and
\* the pending-draw fields of the stored round as they were.
C22_SingleDrawKeepsTurn ==
  [][/\ \A r \in requests' \ requests :
          (r.op = "drawCards" /\ ~r.shouldSkipTurn) =>
            LET c == r.client
                g == game[c]
            IN /\ players'[c].hand = <<g.drawPile[Len(g.drawPile)]>> \o myPlayer(g, c).hand
               /\ races' = 0 =>
                    players'[c].hand =
                      <<games.draw_pile[Len(games.draw_pile)]>> \o players[c].hand
               /\ \A q \in Browsers \ {c} : players'[q] = players[q]
               /\ games' = games
               /\ r.columns.draw_pile = SubSeq(g.drawPile, 1, Len(g.drawPile) - 1)
               /\ r.columns.current_player_index = g.currentPlayerIndex
               /\ r.columns.current_color = g.currentColor
               /\ r.columns.pending_draw_total = 0
               /\ r.columns.pending_draw_type = g.pendingDrawType
               /\ r.columns.stacking_timer = g.stackingTimer
     /\ \A r \in requests \ requests' :
          (r.op = "drawCards" /\ ~r.shouldSkipTurn) =>
            /\ players' = players
            /\ games'.direction = games.direction
            /\ games'.discard_pile = games.discard_pile
            /\ races = 0 =>
                 /\ TurnFields' = TurnFields
                 /\ games'.draw_pile = SubSeq(games.draw_pile, 1, Len(games.draw_pile) - 1)]_vars

\* the current player has drawn one card into a hand of DealSize cards with
\* nothing overtaken, and is still the current player
C22_Witness ==
  /\ games.exists /\ requests = {} /\ races = 0
  /\ games.play_history # <<>>
  /\ LET last == games.play_history[Len(games.play_history)]
     IN /\ last.action = "drew" /\ last.n = 1
        /\ players[last.player].seated
        /\ Len(players[last.player].hand) = DealSize + 1
        /\ PlayerRows(players)[games.current_player_index + 1].player_id = last.player
        /\ games.pending_draw_total = 0

----------------------------------------------------------------------------
(* C23: the draw pile that is too short. *)

\* C23: a click of the current player on a draw pile that holds fewer cards
\* than the draw needs (the pending total, or one card) is answered with
\* "No cards left"; the hand stays as it was and no update of the game row
\* (pile, pending-draw fields, turn, history) is made.
C23_ShortPileRefused ==
  (probe.op = "drawCards"
     /\ probe.pile < (IF probe.total > 0 THEN probe.total ELSE 1)) =>
    /\ probe.refused
    /\ probe.toast = "No cards left"
    /\ probe.hand = probe.handBefore
    /\ "columns" \notin DOMAIN probe

\* a pending draw of four is clicked with two cards in the draw pile
C23_Witness ==
  /\ probe.op = "drawCards" /\ probe.refused
  /\ probe.total = 4 /\ probe.pile = 2

----------------------------------------------------------------------------
(* Scoring across rounds: calculateCardPoints 903-914, calculatePlayerScore *)
(* 916-918, handleMatchEnd 920-990, startNextMatch 992-1040.  A session of  *)
(* rounds is kept in `probe`: each round is played to its end, scored by    *)
(* handleMatchEnd, and followed by startNextMatch.                          *)

MaxRounds == 3        \* rounds of one session
ScoreLimit == 100     \* score_limit of the session (100..1000 in the lobby)
MaxJoined == 3        \* players of the session

\* a variant of calculateCardPoints in which a wild card counts like an
\* action card
calculateCardPoints_WildTwenty(card) ==
  IF card.type = "number" THEN (IF card.value = NoValue THEN 0 ELSE card.value)
  ELSE 20

\* 903-914
calculateCardPoints(card) ==
  IF card.type = "number" THEN (IF card.value = NoValue THEN 0 ELSE card.value)
  ELSE IF card.type \in {"skip", "reverse", "draw2"} THEN 20
  ELSE IF card.type \in {"wild", "wild4"} THEN 50
  ELSE 0

\* 916-918
calculatePlayerScore(hand) ==
  SumSeq([i \in 1..Len(hand) |-> calculateCardPoints(hand[i])])

\* newPlayerTotalScores[player.id] || 0
TotalOf(totals, id) == IF id \in DOMAIN totals THEN totals[id] ELSE 0

\* a variant of MatchScore in which the winner collects the points of the
\* hands the other players are left with
MatchScore_WinnerCollects(g, player, winnerId) ==
  IF player.id = winnerId
  THEN SumSeq([i \in 1..Len(g.players) |->
                 IF g.players[i].id = winnerId THEN 0
                 ELSE calculatePlayerScore(g.players[i].hand)])
  ELSE calculatePlayerScore(player.hand)

\* 931-961: the score of one player; the cards of the draw pile are added
\* for the player after the winner when game.selectedCards holds draw cards
MatchScore(g, player, winnerId) ==
  IF player.id = winnerId THEN 0
  ELSE LET lastPlayedCards == g.selectedCards
           hasDrawCards == \E i \in 1..Len(lastPlayedCards) : IsDrawCard(lastPlayedCards[i])
           seatedPlayers == getSeatedPlayers(g)
           n == Len(seatedPlayers)
           winnerSeatedIndex == FindIndex(seatedPlayers,
                                  {q \in Range(seatedPlayers) : q.id = winnerId})
           nextIndex == IF n = 0 THEN -1 ELSE JsRem(winnerSeatedIndex + g.direction + n, n)
           nextId == IF nextIndex < 0 THEN NoId ELSE seatedPlayers[nextIndex + 1].id
           drawAmount == DrawAmount(lastPlayedCards)
           taken == IF drawAmount < Len(g.drawPile) THEN drawAmount ELSE Len(g.drawPile)
           additionalCards == SubSeq(g.drawPile, Len(g.drawPile) - taken + 1, Len(g.drawPile))
       IN calculatePlayerScore(player.hand)
          + (IF hasDrawCards /\ g.scoringEnabled /\ player.id = nextId
             THEN calculatePlayerScore(additionalCards) ELSE 0)

\* game.scoreLimit || 300
LimitOf(g) == IF g.scoreLimit = 0 THEN 300 ELSE g.scoreLimit

\* a variant of Eliminates that eliminates again a player already eliminated
Eliminates_Again(g, total, eliminated, id) == total >= LimitOf(g)

\* 966: the condition under which a player is pushed on newEliminatedPlayers
Eliminates(g, total, eliminated, id) ==
  total >= LimitOf(g) /\ id \notin Range(eliminated)

\* 928-969: game.players.forEach, from player i on
RECURSIVE ScoredFrom(_, _, _, _)
ScoredFrom(g, winnerId, i, acc) ==
  IF i > Len(g.players) THEN acc
  ELSE LET player == g.players[i]
           score == MatchScore(g, player, winnerId)
           total == TotalOf(acc.totals, player.id) + score
       IN ScoredFrom(g, winnerId, i + 1,
            [scores |-> Append(acc.scores, score),
             totals |-> [id \in DOMAIN acc.totals \cup {player.id} |->
                           IF id = player.id THEN total ELSE acc.totals[id]],
             eliminated |-> IF Eliminates(g, total, acc.eliminated, player.id)
                            THEN Append(acc.eliminated, player.id)
                            ELSE acc.eliminated])

\* a variant of FinalWinner that names the first remaining player
FinalWinner_FirstRemaining(g, eliminated) ==
  LET remainingPlayers == Filter(g.players, {q \in Range(g.players) : q.id \notin Range(eliminated)})
  IN IF Len(remainingPlayers) >= 1 THEN remainingPlayers[1].id ELSE NoId

\* 975-977
FinalWinner(g, eliminated) ==
  LET remainingPlayers == Filter(g.players, {q \in Range(g.players) : q.id \notin Range(eliminated)})
  IN IF Len(remainingPlayers) = 1 THEN remainingPlayers[1].id ELSE NoId

\* 979-985: the update of the game row
handleMatchEndUpdate(g, winnerId) ==
  LET scored == ScoredFrom(g, winnerId, 1,
                  [scores |-> <<>>, totals |-> g.playerTotalScores,
                   eliminated |-> g.eliminatedPlayers])
  IN [match_scores |-> Append(g.matchScores, scored.scores),
      player_total_scores |-> scored.totals,
      eliminated_players |-> scored.eliminated,
      final_winner_id |-> FinalWinner(g, scored.eliminated),
      game_state |-> "ended"]

\* 997-1003, 1006-1016: the players after startNextMatch, dealt from `deck`
RECURSIVE DealtFrom(_, _, _, _)
DealtFrom(g, playersNow, deck, i) ==
  IF i > Len(g.players) THEN [players |-> playersNow, deck |-> deck]
  ELSE LET player == g.players[i]
           remaining == player.id \notin Range(g.eliminatedPlayers) /\ player.seated
       IN IF remaining
          THEN DealtFrom(g, [playersNow EXCEPT ![i].hand = Take(deck, DealSize)],
                         Drop(deck, DealSize), i + 1)
          ELSE DealtFrom(g, playersNow, deck, i + 1)

Unseated(g) ==
  [i \in 1..Len(g.players) |->
     IF g.players[i].id \in Range(g.eliminatedPlayers)
     THEN [g.players[i] EXCEPT !.seated = FALSE, !.seatedPosition = -1]
     ELSE g.players[i]]

\* 1018-1036: the update of the game row, for the deck left after the deal
startNextMatchUpdate(g, deck) ==
  LET discardPile == <<deck[Len(deck)]>>
  IN [current_match_number |-> g.currentMatchNumber + 1,
      current_player_index |-> 0,
      direction |-> 1,
      draw_pile |-> SubSeq(deck, 1, Len(deck) - 1),
      discard_pile |-> discardPile,
      current_color |-> IF discardPile[1].color = "wild" THEN "red" ELSE discardPile[1].color,
      game_state |-> "playing",
      winner_id |-> NoId,
      pending_draw_total |-> 0,
      pending_draw_type |-> NoType,
      stacking_timer |-> NoTimer]

\* the players of a session: the first two seated, the third seated or not
MatchPlayers(k, allSeated) ==
  [i \in 1..k |->
     [id |-> PlayerIds[i], hand |-> <<>>, position |-> i - 1, isHost |-> i = 1,
      seated |-> (i <= 2 \/ allSeated),
      seatedPosition |-> IF i <= 2 \/ allSeated THEN i - 1 ELSE -1]]

\* the hands a player may be left with when another player wins: 2, 20, 50
\* and 100 points
MatchHands ==
  {<<UnoCard("red", "number", 2, 1, 0)>>,
   <<UnoCard("blue", "skip", NoValue, 1, 0)>>,
   <<UnoCard("wild", "wild", NoValue, 0, 0)>>,
   <<UnoCard("wild", "wild", NoValue, 0, 0), UnoCard("wild", "wild4", NoValue, 0, 0)>>}

\* createGame with scoring enabled, joinGame, seatPlayer, beginGame: the
\* first round is being played
ProbeMatchStart ==
  /\ probe = NoProbe
  /\ \E k \in 2..MaxJoined : \E allSeated \in BOOLEAN :
       probe' = [op |-> "match", last |-> "beginGame", rounds |-> 1, scored |-> FALSE,
                 g |-> [players |-> MatchPlayers(k, allSeated),
                        currentPlayerIndex |-> 0, direction |-> 1,
                        drawPile |-> <<>>, discardPile |-> <<>>, currentColor |-> "red",
                        gameState |-> "playing", winnerId |-> NoId,
                        selectedCards |-> <<>>,
                        scoringEnabled |-> TRUE, scoreLimit |-> ScoreLimit,
                        matchScores |-> <<>>,
                        playerTotalScores |-> [id \in {} |-> 0],
                        eliminatedPlayers |-> <<>>,
                        finalWinnerId |-> NoId,
                        currentMatchNumber |-> 1]]
  /\ ProbeUnchanged

\* the round is played to its end: a seated player has played the last card
\* (757-758), every other seated player holds one of MatchHands, and the
\* players that are not seated hold what they held
ProbeRoundPlayed ==
  /\ probe.op = "match"
  /\ probe.g.gameState = "playing"
  /\ LET g == probe.g
         seatedIds == {g.players[i].id : i \in {j \in 1..Len(g.players) : g.players[j].seated}}
     IN \E winner \in seatedIds : \E hands \in [seatedIds -> MatchHands] :
          probe' = [probe EXCEPT
            !.last = "executeCardPlay", !.scored = FALSE,
            !.g = [g EXCEPT
              !.players = [i \in 1..Len(g.players) |->
                 IF g.players[i].id = winner THEN [g.players[i] EXCEPT !.hand = <<>>]
                 ELSE IF g.players[i].seated
                      THEN [g.players[i] EXCEPT !.hand = hands[g.players[i].id]]
                      ELSE g.players[i]],
              !.gameState = "ended", !.winnerId = winner]]
  /\ ProbeUnchanged

\* handleMatchEnd(winnerId) for the round that has ended (920-990)
handleMatchEnd ==
  /\ probe.op = "match"
  /\ probe.g.gameState = "ended" /\ ~probe.scored
  /\ probe.g.scoringEnabled
  /\ LET g == probe.g
         columns == handleMatchEndUpdate(g, g.winnerId)
     IN probe' = [probe EXCEPT
          !.last = "handleMatchEnd", !.scored = TRUE,
          !.g = [g EXCEPT !.matchScores = columns.match_scores,
                          !.playerTotalScores = columns.player_total_scores,
                          !.eliminatedPlayers = columns.eliminated_players,
                          !.finalWinnerId = columns.final_winner_id,
                          !.gameState = columns.game_state]]
  /\ ProbeUnchanged

\* startNextMatch after a scored round (992-1040); the handler tests
\* scoringEnabled only, so it runs for a session with a final winner too
startNextMatch ==
  /\ probe.op = "match"
  /\ probe.g.gameState = "ended" /\ probe.scored
  /\ probe.g.scoringEnabled
  /\ probe.rounds < MaxRounds
  /\ LET g == probe.g
     IN \E shuffled \in shuffleDeck(TableDeck) :
          LET dealt == DealtFrom(g, Unseated(g), shuffled, 1)
              columns == startNextMatchUpdate(g, dealt.deck)
          IN probe' =
             IF dealt.deck = <<>>
             THEN \* deck.pop() is undefined and discardPile[0].color throws:
                  \* the rows of the players are written, the game row is not
                  [probe EXCEPT !.last = "startNextMatch", !.g.players = dealt.players]
             ELSE [probe EXCEPT
               !.last = "startNextMatch", !.rounds = @ + 1, !.scored = FALSE,
               !.g = [g EXCEPT !.players = dealt.players,
                               !.currentMatchNumber = columns.current_match_number,
                               !.currentPlayerIndex = columns.current_player_index,
                               !.direction = columns.direction,
                               !.drawPile = columns.draw_pile,
                               !.discardPile = columns.discard_pile,
                               !.currentColor = columns.current_color,
                               !.gameState = columns.game_state,
                               !.winnerId = columns.winner_id]]
  /\ ProbeUnchanged

NextMatch == ProbeMatchStart \/ ProbeRoundPlayed \/ handleMatchEnd \/ startNextMatch

SpecMatch == Init /\ [][NextMatch]_vars

----------------------------------------------------------------------------
(* C24: eliminated exactly once. *)

\* how often id occurs in the sequence s
Occurrences(s, id) == Cardinality({i \in 1..Len(s) : s[i] = id})

\* C24: after handleMatchEnd, and from then on, every player whose
\* cumulative total has reached the score limit occurs in eliminatedPlayers
\* exactly once, and nobody occurs in it twice.
C24_EliminatedOnce ==
  (probe.op = "match" /\ probe.g.matchScores # <<>>) =>
    \A i \in 1..Len(probe.g.players) :
      LET id == probe.g.players[i].id
      IN /\ Occurrences(probe.g.eliminatedPlayers, id) <= 1
         /\ TotalOf(probe.g.playerTotalScores, id) >= ScoreLimit =>
              Occurrences(probe.g.eliminatedPlayers, id) = 1

\* a player eliminated in the first round has been scored again in a later
\* round
C24_Witness ==
  /\ probe.op = "match" /\ probe.last = "handleMatchEnd"
  /\ Len(probe.g.matchScores) >= 2
  /\ \E id \in Range(probe.g.eliminatedPlayers) :
       /\ probe.g.matchScores[1][CHOOSE i \in 1..Len(probe.g.players) : probe.g.players[i].id = id]
            >= ScoreLimit
       /\ Occurrences(probe.g.eliminatedPlayers, id) = 1

----------------------------------------------------------------------------
(* C25: the total of an eliminated player. *)

\* C25: the cumulative total of a player who is in eliminatedPlayers is the
\* same after every later step of the session.
C25_EliminatedTotalFrozen ==
  [][probe.op = "match" =>
       \A id \in Range(probe.g.eliminatedPlayers) :
         TotalOf(probe'.g.playerTotalScores, id) = TotalOf(probe.g.playerTotalScores, id)]_vars

----------------------------------------------------------------------------
(* C26: the score of a round. *)

\* the points of a hand as the claim counts them
ClaimedPoints(hand) ==
  SumSeq([i \in 1..Len(hand) |->
            IF hand[i].type = "number" THEN hand[i].value
            ELSE IF hand[i].type \in {"skip", "reverse", "draw2"} THEN 20
            ELSE 50])

----------------------------------------------------------------------------
(* C27: the winner of the session. *)

\* the players of the session that are not eliminated
RemainingIds ==
  {probe.g.players[i].id : i \in 1..Len(probe.g.players)} \ Range(probe.g.eliminatedPlayers)

\* C27: after handleMatchEnd finalWinnerId is set exactly when one player
\* is not in eliminatedPlayers, and it is the id of that player.
C27_FinalWinner ==
  (probe.op = "match" /\ probe.last = "handleMatchEnd") =>
    /\ probe.g.finalWinnerId # NoId <=> Cardinality(RemainingIds) = 1
    /\ probe.g.finalWinnerId # NoId => RemainingIds = {probe.g.finalWinnerId}

\* of three players two were eliminated in different rounds and the third
\* is the winner of the session
C27_Witness ==
  /\ probe.op = "match" /\ probe.last = "handleMatchEnd"
  /\ Len(probe.g.players) = 3
  /\ Len(probe.g.matchScores) >= 2
  /\ Len(probe.g.eliminatedPlayers) = 2
  /\ probe.g.finalWinnerId \in RemainingIds
  /\ probe.g.matchScores[1][CHOOSE i \in 1..3 : probe.g.players[i].id = probe.g.eliminatedPlayers[2]] < ScoreLimit

----------------------------------------------------------------------------
(* C28: the seats at the start of a round. *)

\* the players stored as seated
SeatedRows == {c \in Browsers : players[c].exists /\ players[c].seated}

\* C28: whenever the stored game_state changes to 'playing', at least two
\* players are stored as seated in the state it changes from.
C28_PlayingNeedsTwoSeated ==
  [][(games.exists /\ games.game_state # "playing" /\ games'.game_state = "playing") =>
       Cardinality(SeatedRows) >= 2]_vars

----------------------------------------------------------------------------
(* C29: joining a round that has started. *)

\* C29: while the stored game_state is 'playing' no joinGame gets as far as
\* a write: the draw pile stays as it is and no insert of a player row with
\* a newly dealt hand is under way.  Stated for clicks on a quiet table, so
\* that no overtaken write is needed to break it.
C29_NoJoinWhilePlaying ==
  [][(games.exists /\ games.game_state = "playing" /\ races' = 0) =>
       /\ games'.draw_pile = games.draw_pile
       /\ \A r \in requests' \ requests : r.op # "joinGame"]_vars

----------------------------------------------------------------------------
(* C30: the first discard of a round.  createGame 1194-1215, newGame        *)
(* 1727-1765, startNextMatch 992-1040; part_000 initializeGame 116-157.    *)

MaxRedraws == 2       \* times initializeGame may put a wild4 back

\* 1729-1764: Play Again.  Every player of the game is dealt from the front
\* of a fresh deck, the last card of what is left is the discard pile.
newGameUpdate(numPlayers, shuffled) ==
  LET deck == Drop(shuffled, numPlayers * DealSize)
      discardPile == <<deck[Len(deck)]>>
  IN [draw_pile |-> SubSeq(deck, 1, Len(deck) - 1),
      discard_pile |-> discardPile,
      current_color |-> IF discardPile[1].color = "wild" THEN "red" ELSE discardPile[1].color,
      current_player_index |-> 0,
      direction |-> 1,
      pending_draw_total |-> 0,
      pending_draw_type |-> NoType,
      stacking_timer |-> NoTimer,
      play_history |-> <<>>,
      winner_id |-> NoId,
      game_state |-> "seating"]

\* a game exists whose round can be replaced by a new one
RoundProbed == probe.op \in {"createGame", "newGame", "startNextMatch"}

ProbeNewGame ==
  /\ RoundProbed
  /\ \E start \in 0..(Len(TableDeck) - 1) : \E numPlayers \in 2..MaxJoined :
       \* with no card left for the discard pile discardPile[0].color throws
       /\ Len(TableDeck) > numPlayers * DealSize
       /\ LET columns == newGameUpdate(numPlayers, Strided(TableDeck, start))
          IN probe' = [op |-> "newGame", discardPile |-> columns.discard_pile,
                       current_color |-> columns.current_color,
                       drawPile |-> columns.draw_pile, gameState |-> columns.game_state]
  /\ ProbeUnchanged

\* startNextMatch (992-1040) on a session of k players, with p2 eliminated
\* or nobody, in any round before the last
ProbeStartNextMatch ==
  /\ RoundProbed
  /\ \E start \in 0..(Len(TableDeck) - 1) : \E k \in 2..MaxJoined :
     \E allSeated \in BOOLEAN : \E eliminated \in {<<>>, <<PlayerIds[2]>>} :
     \E match \in 1..(MaxRounds - 1) :
       LET g == [players |-> MatchPlayers(k, allSeated),
                 eliminatedPlayers |-> eliminated,
                 currentMatchNumber |-> match]
           dealt == DealtFrom(g, Unseated(g), Strided(TableDeck, start), 1)
           columns == startNextMatchUpdate(g, dealt.deck)
       IN /\ dealt.deck # <<>>
          /\ probe' = [op |-> "startNextMatch", discardPile |-> columns.discard_pile,
                       current_color |-> columns.current_color,
                       drawPile |-> columns.draw_pile, gameState |-> columns.game_state,
                       players |-> dealt.players,
                       currentMatchNumber |-> columns.current_match_number]
  /\ ProbeUnchanged

\* part_000 137: deck.sort(() => Math.random() - 0.5) can leave the deck in
\* any order; the orders explored are its rotations
Resorted(deck) ==
  {[i \in 1..Len(deck) |-> deck[((s + i - 1) % Len(deck)) + 1]] : s \in 0..(Len(deck) - 1)}

\* part_000 134-139: the first card is popped; a wild4 is pushed back, the
\* deck is sorted at random and the card is popped again, for as long as it
\* takes.  The outcomes that take at most n sorts.
RECURSIVE firstCardOf(_, _)
firstCardOf(deck, n) ==
  LET firstCard == deck[Len(deck)]
  IN IF firstCard.type # "wild4"
     THEN {[firstCard |-> firstCard, deck |-> SubSeq(deck, 1, Len(deck) - 1)]}
     ELSE IF n = 0 THEN {}
     ELSE UNION {firstCardOf(d, n - 1) : d \in Resorted(deck)}

\* part_000 116-157: initializeGame(playerNames) of the early version; each
\* player is dealt from the end of the deck (deck.pop())
ProbeInitializeGame ==
  /\ probe = NoProbe
  /\ \E start \in 0..(Len(TableDeck) - 1) : \E numPlayers \in 1..MaxJoined :
       \* with no card left firstCard.type throws
       /\ Len(TableDeck) > numPlayers * DealSize
       /\ LET shuffled == Strided(TableDeck, start)
              deck == SubSeq(shuffled, 1, Len(shuffled) - numPlayers * DealSize)
          IN \E first \in firstCardOf(deck, MaxRedraws) :
               probe' = [op |-> "initializeGame", discardPile |-> <<first.firstCard>>,
                         current_color |->
                           IF first.firstCard.color = "wild" THEN "red" ELSE first.firstCard.color,
                         drawPile |-> first.deck, gameState |-> "playing"]
  /\ ProbeUnchanged

NextFirstCard ==
  ProbeCreateGame \/ ProbeNewGame \/ ProbeStartNextMatch \/ ProbeInitializeGame

SpecFirstCard == Init /\ [][NextFirstCard]_vars

\* C30: whichever of createGame, newGame (Play Again), startNextMatch and
\* the early initializeGame has set up the round, the one card it puts on
\* the discard pile is not a wild4.
C30_FirstDiscardNotWild4 ==
  probe.op \in {"createGame", "newGame", "startNextMatch", "initializeGame"} =>
    probe.discardPile[1].type # "wild4"

----------------------------------------------------------------------------
(* C31: seats.  seatPlayer 1320-1332, unseatPlayer 1334-1341.               *)

\* C31: no two stored players that are seated have the same
\* seated_position, whatever seatPlayer and unseatPlayer calls were made,
\* those made on a copy of the game that was not yet reloaded included.
C31_SeatsDistinct ==
  \A q, r \in Browsers :
    (q # r /\ players[q].exists /\ players[r].exists
       /\ players[q].seated /\ players[r].seated) =>
      players[q].seated_position # players[r].seated_position

\* two players were seated by calls made on one copy of the game: both are
\* stored as seated while the copy of the host still shows nobody seated
C31_Witness ==
  /\ lastOp.op = "seatPlayer"
  /\ races > 0
  /\ Cardinality(SeatedRows) = 2
  /\ game[Host].exists /\ SeatedIn(game[Host]) = {}

----------------------------------------------------------------------------
(* C32: the deck.  generateDeck 69-124; part_000 generateDeck 47-71.        *)

\* part_000 47-71: the early generateDeck builds one deck
generateDeckEarly == OneDeck(0, colors, numbers, actionTypes, 4)

DeckOf(version) == IF version = "final" THEN generateDeck ELSE generateDeckEarly

\* String(n) of a template string, for the values that occur
DigitText == <<"0", "1", "2", "3", "4", "5", "6", "7", "8", "9">>

\* The id of a card as generateDeck writes it, as the list of the parts that
\* the template string joins with "-": `${color}-${num}-2-deck${deckNum}` is
\* <<color, num, "2", "deck" deckNum>>.  The first copy has no "2", and the
\* early version has no deck part.
IdText(version, card) ==
  LET id == card.id
      second == IF id[4] = 2 THEN <<"2">> ELSE <<>>
      deckPart == IF version = "final" THEN <<"deck", DigitText[id[5] + 1]>> ELSE <<>>
  IN IF card.type = "number" THEN <<id[1], DigitText[id[3] + 1]>> \o second \o deckPart
     ELSE IF card.color = "wild" THEN <<id[1], DigitText[id[4] + 1]>> \o deckPart
     ELSE <<id[1], id[2]>> \o second \o deckPart

\* generateDeck() is called and two of the cards it returned are compared
ProbeGenerateDeck ==
  /\ probe = NoProbe
  /\ \E version \in {"final", "early"} :
       probe' = [op |-> "generateDeck", version |-> version, deck |-> DeckOf(version)]
  /\ ProbeUnchanged

ProbeDeckIds ==
  /\ probe.op = "generateDeck"
  /\ LET deck == DeckOf(probe.version)
     IN \E i, j \in 1..Len(deck) :
          /\ i < j
          /\ probe' = [op |-> "deckIds", version |-> probe.version, i |-> i, j |-> j,
                       first |-> IdText(probe.version, deck[i]),
                       second |-> IdText(probe.version, deck[j])]
  /\ ProbeUnchanged

NextDeck == ProbeGenerateDeck \/ ProbeDeckIds

SpecDeck == Init /\ [][NextDeck]_vars

\* the cards of a deck with a type and a value (NoValue for the action and
\* wild cards)
CountOf(deck, type, value) ==
  Cardinality({i \in 1..Len(deck) : deck[i].type = type /\ deck[i].value = value})

CountOfCard(deck, card) ==
  Cardinality({i \in 1..Len(deck) :
                 deck[i].color = card.color /\ deck[i].type = card.type
                   /\ deck[i].value = card.value})

\* C32: the final generateDeck returns 216 cards: 8 zero cards, 16 of each
\* number 1-9, 16 each of skip, reverse and draw2, 8 wild and 8 wild4; the
\* early generateDeck returns 108 cards, of each colour, type and value half
\* as many as the final one; and no two cards of a deck have the same id.
C32_DeckContents ==
  /\ (probe.op = "generateDeck" /\ probe.version = "final") =>
        /\ Len(probe.deck) = 216
        /\ CountOf(probe.deck, "number", 0) = 8
        /\ \A n \in 1..9 : CountOf(probe.deck, "number", n) = 16
        /\ \A t \in Range(actionTypes) : CountOf(probe.deck, t, NoValue) = 16
        /\ CountOf(probe.deck, "wild", NoValue) = 8
        /\ CountOf(probe.deck, "wild4", NoValue) = 8
  /\ (probe.op = "generateDeck" /\ probe.version = "early") =>
        /\ Len(probe.deck) = 108
        /\ \A card \in Range(generateDeck) :
             2 * CountOfCard(probe.deck, card) = CountOfCard(generateDeck, card)
  /\ probe.op = "deckIds" => probe.first # probe.second

\* the last two cards of the final deck have been compared: wild-3-deck1
\* and wild4-3-deck1
C32_Witness ==
  /\ probe.op = "deckIds" /\ probe.version = "final"
  /\ probe.i = 215 /\ probe.j = 216
  /\ probe.first = <<"wild", "3", "deck", "1">>
  /\ probe.second = <<"wild4", "3", "deck", "1">>

----------------------------------------------------------------------------
(* C33: a card that may not be selected.  selectCard 443-533.               *)

\* the card is not in the selection and fails one of the three tests
IllegalToSelect(g, sel, card) ==
  /\ ~\E i \in 1..Len(sel) : sel[i].id = card.id
  /\ \/ ~canPlayCard(g, sel, card)
     \/ g.pendingDrawTotal > 0 /\ g.pendingDrawType # NoType /\ ~canPlayDrawCard(g, card)
     \/ Len(sel) > 0 /\ ~canStackCard(sel[1], card)

\* C33: a selectCard of a card that fails canPlayCard, or canPlayDrawCard
\* while a draw is pending, or canStackCard against the first selected
\* card, changes neither the selection nor the stored round nor the copy of
\* it, and starts no write (so no play_history entry is added).
C33_IllegalSelectionIgnored ==
  [][\A c \in Clients : \A card \in Cards :
       (selectCard(c, card) /\ IllegalToSelect(game[c], selectedCards[c], card))
         => UNCHANGED <<selectedCards, games, players, game, requests>>]_vars

\* it is the turn of the browser, its last click selected nothing and was
\* made on a quiet table, and the one card selected cannot be stacked with
\* another card of the hand that canPlayCard accepts
C33_Witness ==
  /\ lastOp.op = "selectCard" /\ ~lastOp.changed /\ races = 0 /\ Quiet
  /\ LET c == lastOp.client
     IN /\ HasMyPlayer(game[c], c) /\ IsMyTurn(game[c], c)
        /\ Len(selectedCards[c]) = 1
        /\ \E card \in Range(myPlayer(game[c], c).hand) :
             /\ card.id # selectedCards[c][1].id
             /\ canPlayCard(game[c], selectedCards[c], card)
             /\ ~canStackCard(selectedCards[c][1], card)

----------------------------------------------------------------------------
(* C34: a session that has a final winner.  startNextMatch 992-1040,       *)
(* newGame 1727-1765 (the Play Again button of the game-over overlay).     *)

\* 1735-1737: every player of the game is dealt from the front of the deck
newGameHands(g, shuffled) ==
  [i \in 1..Len(g.players) |->
     [g.players[i] EXCEPT !.hand = Take(Drop(shuffled, (i - 1) * DealSize), DealSize)]]

\* Play Again in a session: the overlay is shown whenever the round has
\* ended (1725), and newGame tests nothing but `game`
newGame ==
  /\ probe.op = "match"
  /\ probe.g.gameState = "ended"
  /\ LET g == probe.g
     IN \E shuffled \in shuffleDeck(TableDeck) :
          probe' =
            IF Len(shuffled) <= Len(g.players) * DealSize
            THEN \* deck.pop() is undefined and discardPile[0].color throws:
                 \* the hands are written (1741-1745), the game row is not
                 [probe EXCEPT !.last = "newGame", !.g.players = newGameHands(g, shuffled)]
            ELSE LET columns == newGameUpdate(Len(g.players), shuffled)
                 IN [probe EXCEPT
                      !.last = "newGame",
                      !.g = [g EXCEPT !.players = newGameHands(g, shuffled),
                                      !.drawPile = columns.draw_pile,
                                      !.discardPile = columns.discard_pile,
                                      !.currentColor = columns.current_color,
                                      !.currentPlayerIndex = columns.current_player_index,
                                      !.direction = columns.direction,
                                      !.winnerId = columns.winner_id,
                                      !.gameState = columns.game_state]]
  /\ ProbeUnchanged

NextSession == NextMatch \/ newGame

SpecSession == Init /\ [][NextSession]_vars

\* C34: in a session whose finalWinnerId is set no step takes gameState
\* away from 'ended' and no step deals a hand.
C34_FinalWinnerEndsSession ==
  [][(probe.op = "match" /\ probe.g.finalWinnerId # NoId) =>
       /\ probe'.g.gameState = "ended"
       /\ \A i \in 1..Len(probe.g.players) :
            probe'.g.players[i].hand = probe.g.players[i].hand]_vars

----------------------------------------------------------------------------
(* C35: when and by whom seats are changed.  seatPlayer 1320-1332,          *)
(* unseatPlayer 1334-1341, the click on a seat 1921-1933.                  *)

\* the stored players whose seated flag or seated_position the step changes
SeatChanged ==
  {q \in Browsers :
     /\ players[q].exists /\ players'[q].exists
     /\ \/ players'[q].seated # players[q].seated
        \/ players'[q].seated_position # players[q].seated_position}

\* C35: a step that changes the seated flag or the seated_position of a
\* player is a seatPlayer or unseatPlayer of the host, and there is no such
\* step while the stored game_state is 'playing'.
C35_SeatsChangeBeforePlayByHost ==
  [][SeatChanged # {} =>
       /\ lastOp'.op \in {"seatPlayer", "unseatPlayer"}
       /\ players[lastOp'.client].exists /\ players[lastOp'.client].is_host
       /\ games.game_state # "playing"]_vars

----------------------------------------------------------------------------
(* C36: joins that overlap.  joinGame 1241-1302 with its awaits: the read   *)
(* of the players (1249-1251) and the insert (1265-1272) are two requests; *)
(* startGame 1303-1308, seatPlayer 1320-1332, unseatPlayer 1334-1341.      *)
(* The store is kept in `probe`, for more browsers than the game may hold. *)

MaxCeiling == 3       \* max_players of the games tried: 2..MaxCeiling

JoinIds == Range(PlayerIds)
NoRead == -1

JoinedIds(rows) == {q \in DOMAIN rows : rows[q].exists}

\* createGame: the game row with its ceiling and the row of the host
ProbeJoinCreate ==
  /\ probe = NoProbe
  /\ \E m \in 2..MaxCeiling :
       probe' = [op |-> "joinGame", max_players |-> m, game_state |-> "waiting",
                 rows |-> [q \in JoinIds |->
                             IF q = Host THEN NewPlayerRow(q, <<>>, 0, TRUE) ELSE NoRow],
                 reads |-> [q \in JoinIds |-> NoRead],
                 refused |-> {}]
  /\ ProbeUnchanged

\* 1249-1259: existingPlayers is read; "Game full" ends the handler
ProbeJoinRead(c) ==
  /\ probe.op = "joinGame"
  /\ ~probe.rows[c].exists /\ probe.reads[c] = NoRead
  /\ LET existingPlayers == JoinedIds(probe.rows)
     IN /\ Cardinality(existingPlayers) < probe.max_players
        /\ probe' = [probe EXCEPT !.reads[c] = Cardinality(existingPlayers)]
  /\ ProbeUnchanged

\* 1265-1272: the insert with position = existingPlayers.length
ProbeJoinInsert(c) ==
  /\ probe.op = "joinGame"
  /\ probe.reads[c] # NoRead
  /\ LET position == probe.reads[c]
     IN probe' =
          IF PositionFree(probe.rows, c, position)
          THEN [probe EXCEPT !.rows[c] = NewPlayerRow(c, <<>>, position, FALSE),
                             !.reads[c] = NoRead]
          ELSE [probe EXCEPT !.reads[c] = NoRead, !.refused = @ \cup {c}]
  /\ ProbeUnchanged

\* 1303-1308
ProbeJoinStartGame ==
  /\ probe.op = "joinGame"
  /\ probe.game_state = "waiting"
  /\ Cardinality(JoinedIds(probe.rows)) >= 2
  /\ probe' = [probe EXCEPT !.game_state = "seating"]
  /\ ProbeUnchanged

\* 1320-1332, 1921-1931: the host puts an unseated player on an empty seat;
\* as many seats are offered as the game may hold (8 and 8 in the code)
ProbeJoinSeat(playerId, position) ==
  /\ probe.op = "joinGame"
  /\ probe.game_state = "seating"
  /\ position \in 0..(probe.max_players - 1)
  /\ probe.rows[playerId].exists /\ ~probe.rows[playerId].seated
  /\ ~\E q \in JoinedIds(probe.rows) :
        probe.rows[q].seated /\ probe.rows[q].seated_position = position
  /\ probe' =
       IF UpdateTaken(probe.rows, playerId, seatPlayerColumns(position))
       THEN [probe EXCEPT !.rows[playerId] = UpdateRow(@, seatPlayerColumns(position))]
       ELSE [probe EXCEPT !.refused = @ \cup {playerId}]
  /\ ProbeUnchanged

\* 1334-1341
ProbeJoinUnseat(playerId) ==
  /\ probe.op = "joinGame"
  /\ probe.game_state = "seating"
  /\ probe.rows[playerId].exists /\ probe.rows[playerId].seated
  /\ probe' = [probe EXCEPT !.rows[playerId] =
                  UpdateRow(@, [seated |-> FALSE, seated_position |-> -1])]
  /\ ProbeUnchanged

NextJoin ==
  \/ ProbeJoinCreate
  \/ \E c \in JoinIds : ProbeJoinRead(c)
  \/ \E c \in JoinIds : ProbeJoinInsert(c)
  \/ ProbeJoinStartGame
  \/ \E q \in JoinIds : \E position \in 0..(MaxCeiling - 1) : ProbeJoinSeat(q, position)
  \/ \E q \in JoinIds : ProbeJoinUnseat(q)

SpecJoin == Init /\ [][NextJoin]_vars

\* C36: the game never has more player rows than its max_players, however
\* the reads and the inserts of several joinGame calls are interleaved.
C36_PlayersWithinCeiling ==
  probe.op = "joinGame" =>
    Cardinality(JoinedIds(probe.rows)) <= probe.max_players

\* before any seat was given, two joinGame calls had read the same list of
\* players: one is in the game, which is full now, and the insert of the
\* other was refused
C36_Witness ==
  /\ probe.op = "joinGame" /\ probe.game_state = "waiting"
  /\ Cardinality(JoinedIds(probe.rows)) = probe.max_players
  /\ \E c \in probe.refused : ~probe.rows[c].exists

----------------------------------------------------------------------------
(* C37: a round played to the end of the draw pile.  The rows of a game of  *)
(* two players are kept in `probe`; each handler runs alone, from its      *)
(* click to its last write: createGame 1194-1240, joinGame 1241-1302,      *)
(* seatPlayer 1320-1332, beginGame 1310-1318, executeCardPlay 626-800,     *)
(* drawCards 1105-1193.                                                    *)

MaxStart == 1         \* shuffles tried for each deck: starts 0..MaxStart
MaxRoundMoves == 8    \* draws and plays of one round that are followed

RoundGame == transformedGame(probe.games, PlayerRows(probe.players))
RoundPlayer == PlayerIdAt(RoundGame, RoundGame.currentPlayerIndex)

\* the game of p1 and p2 when the host has clicked Begin Game
ProbeRoundBegin ==
  /\ probe = NoProbe
  /\ \E s1, s2 \in 0..MaxStart :
       LET created == Strided(TableDeck, s1)
           rest == Drop(created, DealSize)
           row == NewGameRow(PlayerIds[1], SubSeq(rest, 1, Len(rest) - 1),
                             <<rest[Len(rest)]>>)
           joined == Strided(TableDeck, s2)
           rows == [q \in Clients |->
                      UpdateRow(NewPlayerRow(q,
                                  IF q = PlayerIds[1] THEN Take(created, DealSize)
                                  ELSE Take(joined, DealSize),
                                  IF q = PlayerIds[1] THEN 0 ELSE 1,
                                  q = PlayerIds[1]),
                                seatPlayerColumns(IF q = PlayerIds[1] THEN 0 ELSE 1))]
       IN probe' = [op |-> "round", last |-> "beginGame", moves |-> 0,
                    games |-> UpdateRow(row,
                      [draw_pile |-> JoinedDrawPile(row.draw_pile, Drop(joined, DealSize)),
                       game_state |-> "playing"]),
                    players |-> rows]
  /\ ProbeUnchanged

\* the current player clicks the draw pile and the pile can supply
ProbeRoundDraw ==
  /\ probe.op = "round"
  /\ probe.moves < MaxRoundMoves
  /\ RoundGame.gameState = "playing"
  /\ RoundPlayer # NoId
  /\ LET g == RoundGame
         c == RoundPlayer
         drawAmount == IF g.pendingDrawTotal > 0 THEN g.pendingDrawTotal ELSE 1
     IN /\ Len(g.drawPile) >= drawAmount
        /\ probe' = [probe EXCEPT
             !.last = "drawCards", !.moves = @ + 1,
             !.players[c] = UpdateRow(@,
                [hand |-> DrawnHand(myPlayer(g, c).hand, g.drawPile, drawAmount)]),
             !.games = UpdateRow(@, drawUpdate(g, c))]
  /\ ProbeUnchanged

\* the current player selects one card that canPlayCard accepts and plays
\* it, with a colour chosen in the modal when it is a wild card
ProbeRoundPlay ==
  /\ probe.op = "round"
  /\ probe.moves < MaxRoundMoves
  /\ RoundGame.gameState = "playing"
  /\ RoundPlayer # NoId
  /\ LET g == RoundGame
         c == RoundPlayer
     IN \E card \in Range(myPlayer(g, c).hand) :
        \E chosenColor \in IF card.color = "wild" THEN Range(colors) ELSE {NoColor} :
          /\ canPlayCard(g, <<>>, card)
          /\ LET columns == gameUpdate(g, c, <<card>>, chosenColor)
             IN probe' = [probe EXCEPT
                  !.last = "executeCardPlay", !.moves = @ + 1,
                  !.players[c] = UpdateRow(@,
                     [hand |-> RemoveCards(myPlayer(g, c).hand, <<card>>)]),
                  !.games = UpdateRow(@, columns)]
  /\ ProbeUnchanged

NextRound == ProbeRoundBegin \/ ProbeRoundDraw \/ ProbeRoundPlay

SpecRound == Init /\ [][NextRound]_vars

\* C37: in a round that is being played the current player holds a card
\* that canPlayCard accepts, or the draw pile holds the cards a click on it
\* would draw.
C37_CurrentPlayerCanMove ==
  (probe.op = "round" /\ RoundGame.gameState = "playing") =>
    /\ RoundPlayer # NoId
    /\ LET g == RoundGame
           drawAmount == IF g.pendingDrawTotal > 0 THEN g.pendingDrawTotal ELSE 1
       IN \/ \E card \in Range(myPlayer(g, RoundPlayer).hand) : canPlayCard(g, <<>>, card)
          \/ Len(g.drawPile) >= drawAmount

----------------------------------------------------------------------------
(* C38: the stored colour and the top of the discard pile.  executeCardPlay *)
(* 677-685, drawCards 1147-1156, handleDrawTimeout 1078-1084.              *)

\* C38: in a stored round that is being played, with a card on top of the
\* discard pile that has a colour of its own, current_color is that colour.
C38_ColourOfTopCard ==
  (games.exists /\ games.game_state = "playing" /\ games.discard_pile # <<>>
     /\ games.discard_pile[Len(games.discard_pile)].color # "wild") =>
    games.current_color = games.discard_pile[Len(games.discard_pile)].color
----------------------------------------------------------------------------
(* C39: who is recorded as skipped.  calculateCardEffects 857-868,          *)
(* executeCardPlay 709-725.                                                 *)

\* the players a play records as skipped
SkippedInEntries(entries) ==
  {entries[i].player : i \in {j \in 1..Len(entries) : entries[j].action = "was skipped"}}

\* C39: the players that the history entries of a play record as "was
\* skipped" never include the player who made the play, for any number of
\* seated players and any number of stacked skip or reverse cards.
C39_PlayerNotSkipped ==
  probe.op = "calculateCardEffects" =>
    probe.entries[1].player \notin SkippedInEntries(probe.entries)

----------------------------------------------------------------------------
(* C40: the winner of a round stays in the session.  handleMatchEnd 928-977. *)

\* C40: when handleMatchEnd scores a round won by a player who was not
\* eliminated before the round, that winner is not in eliminatedPlayers
\* afterwards, so at least one player remains non-eliminated.
C40_WinnerNotEliminated ==
  [][(handleMatchEnd /\ probe.g.winnerId \notin Range(probe.g.eliminatedPlayers))
       => /\ probe'.g.winnerId = probe.g.winnerId
          /\ probe'.g.winnerId \notin Range(probe'.g.eliminatedPlayers)
          /\ \E i \in 1..Len(probe'.g.players) :
               probe'.g.players[i].id \notin Range(probe'.g.eliminatedPlayers)]_vars

\* handleMatchEnd has scored a later round of a session: a player was
\* eliminated, the winner of the round has points from an earlier round and
\* is not eliminated
C40_Witness ==
  /\ probe.op = "match" /\ probe.last = "handleMatchEnd"
  /\ probe.rounds >= 2
  /\ probe.g.eliminatedPlayers # <<>>
  /\ TotalOf(probe.g.playerTotalScores, probe.g.winnerId) > 0
  /\ probe.g.winnerId \notin Range(probe.g.eliminatedPlayers)

====
